---- MODULE Spec2Model ----
(***************************************************************************)
(* Model of the LLM orchestration core of superglue: the response cache    *)
(* (packages/core/llm/cache.ts) and the two providers that use it          *)
(* (openai-model.ts, gemini-model.ts).                                     *)
(*                                                                         *)
(* JavaScript values are records [t, s, kv]: t is the type tag, s the text *)
(* of a primitive, kv the ordered content of a container (the <<key,       *)
(* value>> pairs of an object in property order, the elements of an        *)
(* array).                                                                 *)
(***************************************************************************)
EXTENDS Integers, Sequences, FiniteSets, TLC

\* ------------------------------------------------------------------------
\* Bounds of the model
\* ------------------------------------------------------------------------
MaxTime == 2
MaxAgeOpt == 1
MaxSizeOpt == 2

\* ------------------------------------------------------------------------
\* JavaScript values
\* ------------------------------------------------------------------------
Undefined == [t |-> "undefined", s |-> "", kv |-> <<>>]
Null == [t |-> "null", s |-> "", kv |-> <<>>]
Str(x) == [t |-> "string", s |-> x, kv |-> <<>>]
Num(x) == [t |-> "number", s |-> x, kv |-> <<>>]
Bool(x) == [t |-> "boolean", s |-> x, kv |-> <<>>]
Obj(pairs) == [t |-> "object", s |-> "", kv |-> pairs]
Arr(items) == [t |-> "array", s |-> "", kv |-> items]

Zero == Num("0")
False == Bool("false")
True == Bool("true")

Range(f) == {f[i] : i \in DOMAIN f}

\* !v
Falsy(v) ==
    \/ v.t \in {"undefined", "null"}
    \/ v = False
    \/ v = Zero
    \/ v = Str("")

\* typeof v === 'object' && v !== null
IsObjectLike(v) == v.t \in {"object", "array"}

\* Object.keys(o)
ObjectKeys(o) == [i \in DOMAIN o.kv |-> o.kv[i][1]]

HasOwn(o, k) == o.t = "object" /\ \E i \in DOMAIN o.kv : o.kv[i][1] = k

\* o[k]
Prop(o, k) ==
    IF HasOwn(o, k)
    THEN o.kv[CHOOSE i \in DOMAIN o.kv : o.kv[i][1] = k][2]
    ELSE Undefined

\* o[k] = v : an existing property keeps its place, a new one goes last
SetProp(o, k, v) ==
    IF HasOwn(o, k)
    THEN Obj([i \in DOMAIN o.kv |-> IF o.kv[i][1] = k THEN <<k, v>> ELSE o.kv[i]])
    ELSE Obj(Append(o.kv, <<k, v>>))

\* delete o[k]
DeleteProp(o, k) ==
    IF o.t = "object" THEN Obj(SelectSeq(o.kv, LAMBDA p : p[1] # k)) ELSE o

\* The property names of the model in the order of String comparison
\* (UTF-16 code units), which is the order Array.prototype.sort() puts them in.
KeyOrder ==
    << "$schema", "___results", "additionalProperties", "age", "content",
       "items", "maxItems", "messages", "minItems", "name", "optional",
       "patternProperties", "properties", "required", "role", "schema",
       "strict", "temperature", "type" >>

\* keys.sort() for a list of distinct property names
SortKeys(keys) == SelectSeq(KeyOrder, LAMBDA k : k \in Range(keys))

RECURSIVE JoinSeq(_, _)
JoinSeq(ss, sep) ==
    IF ss = <<>> THEN <<>>
    ELSE IF Len(ss) = 1 THEN ss[1]
    ELSE ss[1] \o sep \o JoinSeq(Tail(ss), sep)

\* JSON.stringify(v), as the list of the tokens of the text it returns.
\* A property whose value is undefined is left out; an undefined array
\* element is written null.
RECURSIVE JSONStringify(_)
JSONStringify(v) ==
    CASE v.t = "string" -> << "\"", v.s, "\"" >>
      [] v.t \in {"number", "boolean"} -> << v.s >>
      [] v.t = "null" -> << "null" >>
      [] v.t = "array" ->
            << "[" >>
            \o JoinSeq([i \in DOMAIN v.kv |->
                          IF v.kv[i].t = "undefined" THEN << "null" >>
                          ELSE JSONStringify(v.kv[i])], << "," >>)
            \o << "]" >>
      [] v.t = "object" ->
            LET present == SelectSeq(v.kv, LAMBDA p : p[2].t # "undefined")
            IN  << "{" >>
                \o JoinSeq([i \in DOMAIN present |->
                              << "\"", present[i][1], "\"", ":" >>
                              \o JSONStringify(present[i][2])], << "," >>)
                \o << "}" >>
      [] OTHER -> <<>>

\* ------------------------------------------------------------------------
\* LLMResponseCache (cache.ts)
\* ------------------------------------------------------------------------
DefaultMaxAge == 3600000
DefaultMaxSize == 1000

\* new LLMResponseCache(options): an option is <<>> when it is not given and
\* <<x>> when it is given as x
Absent == <<>>
Given(x) == << x >>

\* options?.maxAge || 60 * 60 * 1000
CtorMaxAge(opt) == IF opt = Absent \/ opt[1] = 0 THEN DefaultMaxAge ELSE opt[1]
\* options?.maxSize || 1000
CtorMaxSize(opt) == IF opt = Absent \/ opt[1] = 0 THEN DefaultMaxSize ELSE opt[1]
\* options?.enabled !== false
CtorEnabled(opt) == opt # Given(FALSE)

NewCache(maxAgeOpt, maxSizeOpt, enabledOpt) ==
    [ maxAge |-> CtorMaxAge(maxAgeOpt),
      maxSize |-> CtorMaxSize(maxSizeOpt),
      enabled |-> CtorEnabled(enabledOpt),
      cache |-> <<>> ]

\* (variant of normalizeObject: the keys are not sorted)
RECURSIVE normalizeObject_Unsorted(_)
normalizeObject_Unsorted(obj) ==
    IF ~IsObjectLike(obj) THEN obj
    ELSE IF obj.t = "array"
    THEN Arr([i \in DOMAIN obj.kv |-> normalizeObject_Unsorted(obj.kv[i])])
    ELSE LET keys == ObjectKeys(obj)
         IN  Obj([i \in DOMAIN keys |->
                    << keys[i], normalizeObject_Unsorted(Prop(obj, keys[i])) >>])

\* normalizeObject(obj)
RECURSIVE normalizeObject(_)
normalizeObject(obj) ==
    IF ~IsObjectLike(obj) THEN obj
    ELSE IF obj.t = "array"
    THEN Arr([i \in DOMAIN obj.kv |-> normalizeObject(obj.kv[i])])
    ELSE LET keys == SortKeys(ObjectKeys(obj))
         IN  Obj([i \in DOMAIN keys |-> << keys[i], normalizeObject(Prop(obj, keys[i])) >>])

\* (variant of the hashed text: the messages go in whole)
KeyText_WholeMessages(messages, temperature, schema) ==
    LET normalizedSchema == IF ~Falsy(schema) THEN normalizeObject(schema) ELSE Undefined
        keyObj == Obj(<<
            << "messages", Arr(messages) >>,
            << "temperature", temperature >>,
            << "schema", normalizedSchema >> >>)
    IN  JSONStringify(keyObj)

\* The text that generateKey hashes: JSON.stringify(keyObj)
KeyText(messages, temperature, schema) ==
    LET normalizedSchema == IF ~Falsy(schema) THEN normalizeObject(schema) ELSE Undefined
        keyObj == Obj(<<
            << "messages", Arr([i \in DOMAIN messages |->
                                  Obj(<< << "role", Prop(messages[i], "role") >>,
                                         << "content", Prop(messages[i], "content") >> >>)]) >>,
            << "temperature", temperature >>,
            << "schema", normalizedSchema >> >>)
    IN  JSONStringify(keyObj)

\* ------------------------------------------------------------------------
\* Schema adapters of the providers
\* ------------------------------------------------------------------------
\* Object.keys(o) as an array of strings
KeysArray(o) == Arr([i \in DOMAIN o.kv |-> Str(o.kv[i][1])])

\* required.has(key) for required = new Set(schema.required)
Requires(schema, key) ==
    LET required == Prop(schema, "required")
    IN  required.t = "array" /\ Str(key) \in Range(required.kv)

\* makeNullable(schema) of utils/tools.ts: the type of the node also admits null
makeNullable(schema) ==
    IF Falsy(schema) \/ schema.t # "object" THEN schema
    ELSE LET type == Prop(schema, "type")
         IN  IF type.t = "string" THEN SetProp(schema, "type", Arr(<< type, Str("null") >>))
             ELSE IF type.t = "array" /\ Str("null") \notin Range(type.kv)
             THEN SetProp(schema, "type", Arr(Append(type.kv, Str("null"))))
             ELSE schema

\* addNullableToOptional(schema) of utils/tools.ts: a copy of the schema in
\* which every property that `required` does not name is made nullable
RECURSIVE addNullableToOptional(_)
addNullableToOptional(schema) ==
    IF Falsy(schema) \/ schema.t # "object" THEN schema
    ELSE LET props == Prop(schema, "properties")
             items == Prop(schema, "items")
             s1 == IF Prop(schema, "type") = Str("object") /\ props.t = "object"
                   THEN SetProp(schema, "properties",
                            Obj([i \in DOMAIN props.kv |->
                                   << props.kv[i][1],
                                      IF Requires(schema, props.kv[i][1])
                                      THEN addNullableToOptional(props.kv[i][2])
                                      ELSE makeNullable(addNullableToOptional(props.kv[i][2])) >>]))
                   ELSE schema
         IN  IF Prop(schema, "type") = Str("array") /\ ~Falsy(items)
             THEN SetProp(s1, "items", addNullableToOptional(items))
             ELSE s1

\* OpenAIModel.enforceStrictSchema(schema, isRoot): the schema it returns
RECURSIVE enforceStrictSchema(_, _)
enforceStrictSchema(schema, isRoot) ==
    IF Falsy(schema) \/ ~IsObjectLike(schema) THEN schema
    ELSE LET s0 == IF isRoot /\ Prop(schema, "type") # Str("object")
                   THEN Obj(<< << "type", Str("object") >>,
                               << "properties", Obj(<< << "___results", schema >> >>) >> >>)
                   ELSE schema
         IN  IF Prop(s0, "type") \notin {Str("object"), Str("array")} THEN s0
             ELSE LET s1 == SetProp(SetProp(s0, "additionalProperties", False), "strict", True)
                      props == Prop(s1, "properties")
                      s2 == IF Falsy(props) THEN s1
                            ELSE SetProp(
                                   DeleteProp(SetProp(s1, "required", KeysArray(props)),
                                              "patternProperties"),
                                   "properties",
                                   Obj([i \in DOMAIN props.kv |->
                                          << props.kv[i][1],
                                             enforceStrictSchema(props.kv[i][2], FALSE) >>]))
                      items == Prop(s2, "items")
                  IN  IF Falsy(items) THEN s2
                      ELSE DeleteProp(
                             DeleteProp(
                               SetProp(s2, "items", enforceStrictSchema(items, FALSE)),
                               "minItems"),
                             "maxItems")

\* The schema that OpenAIModel.generateObject sends, and passes to set
OpenAISchema(schema) == enforceStrictSchema(addNullableToOptional(schema), TRUE)

\* GeminiModel.cleanSchemaForGemini(schema): the schema it returns. The calls
\* it makes of itself for the properties and the items work on copies of
\* their own and their results are dropped.
cleanSchemaForGemini(schema) ==
    LET s1 == DeleteProp(DeleteProp(DeleteProp(schema, "$schema"),
                                    "additionalProperties"), "optional")
        props == Prop(s1, "properties")
    IN  IF ~Falsy(props) /\ IsObjectLike(props)
        THEN SetProp(s1, "required", KeysArray(props))
        ELSE s1

\* ------------------------------------------------------------------------
\* Inputs of the model
\* ------------------------------------------------------------------------
Message(role, content) == Obj(<< << "role", Str(role) >>, << "content", Str(content) >> >>)

messages1 == << Message("user", "message 1") >>
messages2 == << Message("system", "You are a helpful assistant."),
                Message("user", "message 2") >>

TypeOf(x) == Obj(<< << "type", Str(x) >> >>)

\* { properties: { name: {type:'string'}, age: {type:'number'} }, type: 'object' }
schema1 ==
    Obj(<< << "properties", Obj(<< << "name", TypeOf("string") >>,
                                   << "age", TypeOf("number") >> >>) >>,
           << "type", Str("object") >> >>)

\* { type: 'object', properties: { age: {type:'number'}, name: {type:'string'} } }
schema2 ==
    Obj(<< << "type", Str("object") >>,
           << "properties", Obj(<< << "age", TypeOf("number") >>,
                                   << "name", TypeOf("string") >> >>) >> >>)

Request(m, t, s) == [messages |-> m, temperature |-> t, schema |-> s]

\* the requests made of the stand-alone cache
CacheRequests ==
    { Request(messages1, Zero, Undefined),
      Request(messages2, Zero, Undefined),
      Request(messages1, Zero, schema1) }

CacheValues == { Str("response 1"), Str("response 2") }

\* messages with the same role and content, written differently
msgHi == Message("user", "hi")
msgHiSwapped == Obj(<< << "content", Str("hi") >>, << "role", Str("user") >> >>)
msgHiNamed ==
    Obj(<< << "role", Str("user") >>, << "content", Str("hi") >>, << "name", Str("bob") >> >>)
msgYo == Message("user", "yo")
msgSystemHi == Message("system", "hi")

KeyMessages ==
    { << msgHi >>, << msgHiSwapped >>, << msgHiNamed >>, << msgYo >>, << msgSystemHi >>,
      << msgHi, msgYo >>, << msgYo, msgHi >> }

KeyTemperatures == { Zero, Num("0.3") }

\* { type: 'object', properties: { name: {type:'string'} } }
schemaName ==
    Obj(<< << "type", Str("object") >>,
           << "properties", Obj(<< << "name", TypeOf("string") >> >>) >> >>)

\* { type: 'object', properties: { age: {type:'number'} } }
schemaAge ==
    Obj(<< << "type", Str("object") >>,
           << "properties", Obj(<< << "age", TypeOf("number") >> >>) >> >>)

\* { type: 'object', properties: { age: {type:'string'} } }
schemaAgeString ==
    Obj(<< << "type", Str("object") >>,
           << "properties", Obj(<< << "age", TypeOf("string") >> >>) >> >>)

\* { type: 'object', required: ['name', 'age'] } and the list the other way round
schemaRequired1 ==
    Obj(<< << "type", Str("object") >>,
           << "required", Arr(<< Str("name"), Str("age") >>) >> >>)
schemaRequired2 ==
    Obj(<< << "type", Str("object") >>,
           << "required", Arr(<< Str("age"), Str("name") >>) >> >>)

\* { type: 'array', items: { type: 'string' } }
schemaStrings ==
    Obj(<< << "type", Str("array") >>, << "items", TypeOf("string") >> >>)

KeySchemas ==
    { Undefined, Obj(<<>>), schema1, schema2, schemaName, schemaAge, schemaAgeString,
      schemaRequired1, schemaRequired2, schemaStrings }

\* the requests whose keys are compared: every schema with one message list,
\* every message list with no schema and with one schema
KeyRequests ==
    { Request(<< msgHi >>, t, sc) : t \in KeyTemperatures, sc \in KeySchemas }
    \cup { Request(m, t, sc) : m \in KeyMessages, t \in KeyTemperatures,
                               sc \in {Undefined, schema1} }

\* the requests made of the providers
ProviderMessages == { messages1, messages2 }
ObjectMessages == { messages1 }
ProviderSchemas == { schemaName, schemaStrings }
ProviderTemperatures == { Zero, Num("0.3") }

\* every message list, temperature and schema that is hashed in the model
\* createHash('md5').update(text).digest('hex'): the digest is taken to be
\* free of collisions; texts differ exactly when their digests differ.
Md5Hex(text) == << "md5", text >>

\* generateKey(messages, temperature, schema)
generateKey(messages, temperature, schema) ==
    Md5Hex(KeyText(messages, temperature, schema))

\* generateKey for the requests of the model, computed once
ProviderRequests ==
    { Request(m, t, sc) : m \in ProviderMessages, t \in ProviderTemperatures \cup {Undefined},
                          sc \in {Undefined} \cup ProviderSchemas
}

KeyTable ==
    [r \in CacheRequests \cup KeyRequests \cup ProviderRequests |->
        generateKey(r.messages, r.temperature, r.schema)]

KeyOf(r) ==
    IF r \in DOMAIN KeyTable THEN KeyTable[r]
    ELSE generateKey(r.messages, r.temperature, r.schema)

Key(messages, temperature, schema) == KeyOf(Request(messages, temperature, schema))

\* this.cache as a Map: the entries in insertion order
MapHas(m, key) == \E i \in DOMAIN m : m[i].key = key
MapGet(m, key) == m[CHOOSE i \in DOMAIN m : m[i].key = key]
MapDelete(m, key) == SelectSeq(m, LAMBDA e : e.key # key)
MapSet(m, key, entry) ==
    IF MapHas(m, key)
    THEN [i \in DOMAIN m |-> IF m[i].key = key THEN entry ELSE m[i]]
    ELSE Append(m, entry)

\* (variant of get: an entry of age maxAge counts as expired)
CacheGet_ExpiresAtMaxAge(c, messages, temperature, schema, t) ==
    IF ~c.enabled THEN [ret |-> Undefined, c |-> c]
    ELSE LET key == Key(messages, temperature, schema)
         IN  IF ~MapHas(c.cache, key)
             THEN [ret |-> Undefined, c |-> c]
             ELSE IF t - MapGet(c.cache, key).timestamp >= c.maxAge
             THEN [ret |-> Undefined, c |-> [c EXCEPT !.cache = MapDelete(@, key)]]
             ELSE [ret |-> MapGet(c.cache, key).value, c |-> c]

\* (variant of get: a hit refreshes the timestamp of the entry)
CacheGet_RefreshOnHit(c, messages, temperature, schema, t) ==
    IF ~c.enabled THEN [ret |-> Undefined, c |-> c]
    ELSE LET key == Key(messages, temperature, schema)
         IN  IF ~MapHas(c.cache, key)
             THEN [ret |-> Undefined, c |-> c]
             ELSE IF t - MapGet(c.cache, key).timestamp > c.maxAge
             THEN [ret |-> Undefined, c |-> [c EXCEPT !.cache = MapDelete(@, key)]]
             ELSE [ret |-> MapGet(c.cache, key).value,
                   c |-> [c EXCEPT !.cache =
                             MapSet(@, key, [MapGet(@, key) EXCEPT !.timestamp = t])]]

\* get(messages, temperature, schema) at time t: the value returned (Undefined
\* for a miss) and the cache afterwards
CacheGet(c, messages, temperature, schema, t) ==
    IF ~c.enabled THEN [ret |-> Undefined, c |-> c]
    ELSE LET key == Key(messages, temperature, schema)
         IN  IF ~MapHas(c.cache, key)
             THEN [ret |-> Undefined, c |-> c]
             ELSE IF t - MapGet(c.cache, key).timestamp > c.maxAge
             THEN [ret |-> Undefined, c |-> [c EXCEPT !.cache = MapDelete(@, key)]]
             ELSE [ret |-> MapGet(c.cache, key).value, c |-> c]

\* The scan of set for the oldest entry: the first entry, in insertion order,
\* whose timestamp is below that of every entry before it and not above that
\* of any entry after it.
OldestIndex(m) ==
    CHOOSE i \in DOMAIN m :
        /\ \A j \in DOMAIN m : m[i].timestamp <= m[j].timestamp
        /\ \A j \in 1..(i - 1) : m[j].timestamp > m[i].timestamp

\* (variant of the eviction: the comparison of the scan is turned round, so
\* the newest entry goes)
EvictNewest(m) ==
    IF m = <<>> THEN m
    ELSE LET i == CHOOSE i \in DOMAIN m :
                      /\ \A j \in DOMAIN m : m[i].timestamp >= m[j].timestamp
                      /\ \A j \in 1..(i - 1) : m[j].timestamp < m[i].timestamp
         IN  MapDelete(m, m[i].key)

EvictOldest(m) ==
    IF m = <<>> THEN m ELSE MapDelete(m, m[OldestIndex(m)].key)

\* (variant of set: the key leaves the schema out)
CacheSet_KeyWithoutSchema(c, messages, temperature, value, schema, t) ==
    IF ~c.enabled THEN c
    ELSE LET key == Key(messages, temperature, Undefined)
             kept == IF Len(c.cache) >= c.maxSize THEN EvictOldest(c.cache) ELSE c.cache
         IN  [c EXCEPT !.cache =
                 MapSet(kept, key, [key |-> key, timestamp |-> t, value |-> value])]

\* (variant of set: evicts only above maxSize)
CacheSet_EvictsAboveMaxSize(c, messages, temperature, value, schema, t) ==
    IF ~c.enabled THEN c
    ELSE LET key == Key(messages, temperature, schema)
             kept == IF Len(c.cache) > c.maxSize THEN EvictOldest(c.cache) ELSE c.cache
         IN  [c EXCEPT !.cache =
                 MapSet(kept, key, [key |-> key, timestamp |-> t, value |-> value])]

\* (variant of set: stores whether or not the cache is enabled)
CacheSet_IgnoresEnabled(c, messages, temperature, value, schema, t) ==
    LET key == Key(messages, temperature, schema)
        kept == IF Len(c.cache) >= c.maxSize THEN EvictOldest(c.cache) ELSE c.cache
    IN  [c EXCEPT !.cache =
            MapSet(kept, key, [key |-> key, timestamp |-> t, value |-> value])]

\* (variant of set: nothing is evicted when the key is already stored)
CacheSet_OverwriteInPlace(c, messages, temperature, value, schema, t) ==
    IF ~c.enabled THEN c
    ELSE LET key == Key(messages, temperature, schema)
             kept == IF Len(c.cache) >= c.maxSize /\ ~MapHas(c.cache, key)
                     THEN EvictOldest(c.cache) ELSE c.cache
         IN  [c EXCEPT !.cache =
                 MapSet(kept, key, [key |-> key, timestamp |-> t, value |-> value])]

\* set(messages, temperature, value, schema) at time t: the cache afterwards
CacheSet(c, messages, temperature, value, schema, t) ==
    IF ~c.enabled THEN c
    ELSE LET key == Key(messages, temperature, schema)
             kept == IF Len(c.cache) >= c.maxSize THEN EvictOldest(c.cache) ELSE c.cache
         IN  [c EXCEPT !.cache =
                 MapSet(kept, key, [key |-> key, timestamp |-> t, value |-> value])]

\* (variant of clear: the first entry stays)
CacheClear_KeepsFirst(c) == [c EXCEPT !.cache = IF @ = <<>> THEN @ ELSE << @[1] >>]

\* clear()
CacheClear(c) == [c EXCEPT !.cache = <<>>]

\* size
CacheSize(c) == Len(c.cache)

\* ------------------------------------------------------------------------
\* OpenAIModel and GeminiModel
\* ------------------------------------------------------------------------
EnvDefaultTTL == 3600000
EnvDefaultSize == 1000

\* parseInt(process.env.X || dflt, 10) for a variable that is unset or holds
\* the digits of a number
ParseIntEnv(opt, dflt) == IF opt = Absent THEN dflt ELSE opt[1]

\* the textCache or objectCache made by the constructor of a provider
ProviderCache(env) ==
    NewCache(Given(ParseIntEnv(env.LLM_CACHE_TTL, EnvDefaultTTL)),
             Given(ParseIntEnv(env.LLM_CACHE_SIZE, EnvDefaultSize)),
             Given(env.LLM_CACHE_ENABLED # Given("false")))

\* process.env.OPENAI_MODEL?.startsWith('o')
StartsWithO(opt) == opt # Absent /\ opt[1] \in {"o1", "o3-mini"}

\* the local variable temperature after "o models don't support temperature"
LocalTemperature(env, temperature) ==
    IF env.provider = "openai" /\ StartsWithO(env.OPENAI_MODEL) THEN Undefined ELSE temperature

\* the local variable schema of generateObject when the cache is written
SetSchema(env, schema) ==
    IF env.provider = "openai" THEN OpenAISchema(schema) ELSE schema

\* the schema sent to the vendor
SentSchema(env, schema) ==
    IF env.provider = "openai" THEN OpenAISchema(schema)
    ELSE IF ~Falsy(schema) THEN cleanSchemaForGemini(schema) ELSE Undefined

\* if (temperature === 0) { const cached = cache.get(...) }
Lookup(c, messages, temperature, schema, t) ==
    IF temperature = Zero
    THEN LET got == CacheGet(c, messages, temperature, schema, t)
         IN  [read |-> TRUE, ret |-> got.ret, c |-> got.c]
    ELSE [read |-> FALSE, ret |-> Undefined, c |-> c]

\* (variant of the store: every response is cached)
Store_AnyTemperature(c, messages, temperature, value, schema, t) ==
    [wrote |-> TRUE, c |-> CacheSet(c, messages, temperature, value, schema, t)]

\* if (temperature === 0) { cache.set(...) }
Store(c, messages, temperature, value, schema, t) ==
    IF temperature = Zero
    THEN [wrote |-> TRUE, c |-> CacheSet(c, messages, temperature, value, schema, t)]
    ELSE [wrote |-> FALSE, c |-> c]

\* (variant of the response: the history holds the reply alone)
Response_ReplyOnly(messages, response, content) ==
    Obj(<< << "response", response >>,
           << "messages", Arr(<< Message("assistant", content) >>) >> >>)

\* { response, messages: [...messages, { role: "assistant", content }] }
Response(messages, response, content) ==
    Obj(<< << "response", response >>,
           << "messages", Arr(Append(messages, Message("assistant", content))) >> >>)

\* the replies of the backend
TextReplies == { "Paris", "Berlin" }
ObjectReplies ==
    { "{\"name\":\"Ada\"}", "{\"___results\":[\"a\"]}", "Sure: {\"name\":\"Ada\"}", "{\"name\":" }

\* JSON.parse(text) for the texts of the model
JSONParse(text) ==
    CASE text = "{\"name\":\"Ada\"}" ->
            [ok |-> TRUE, value |-> Obj(<< << "name", Str("Ada") >> >>)]
      [] text = "{\"___results\":[\"a\"]}" ->
            [ok |-> TRUE, value |-> Obj(<< << "___results", Arr(<< Str("a") >>) >> >>)]
      [] text = "{\"___results\":0}" ->
            [ok |-> TRUE, value |-> Obj(<< << "___results", Zero >> >>)]
      [] text = "{\"___results\":false}" ->
            [ok |-> TRUE, value |-> Obj(<< << "___results", False >> >>)]
      [] text = "{\"___results\":\"\"}" ->
            [ok |-> TRUE, value |-> Obj(<< << "___results", Str("") >> >>)]
      [] text = "{\"___results\":null}" ->
            [ok |-> TRUE, value |-> Obj(<< << "___results", Null >> >>)]
      [] text = "{\"___results\":5}" ->
            [ok |-> TRUE, value |-> Obj(<< << "___results", Num("5") >> >>)]
      [] text = "[\"a\"]" -> [ok |-> TRUE, value |-> Arr(<< Str("a") >>)]
      [] text = "5" -> [ok |-> TRUE, value |-> Num("5")]
      [] OTHER -> [ok |-> FALSE, value |-> Undefined]

\* text.replace(/^[^[{]*/, '').replace(/[^}\]]*$/, '') for the texts of the model
GeminiTrim(text) ==
    CASE text = "Sure: {\"name\":\"Ada\"}" -> "{\"name\":\"Ada\"}"
      [] text = "{\"name\":" -> ""
      [] text = "{\"name\":\"Ada\"} Hope this helps!" -> "{\"name\":\"Ada\"}"
      [] text = "Here you go: [\"a\"] Done." -> "[\"a\"]"
      [] text = "The answer is 5" -> ""
      [] text = "5" -> ""
      [] OTHER -> text

\* (variant of the inner try: a reply that cannot be parsed is passed on as
\* no value)
ParseReply_Swallow(env, text) ==
    LET kept == IF env.provider = "openai" THEN text ELSE GeminiTrim(text)
        parsed == JSONParse(kept)
    IN  [ok |-> TRUE, text |-> kept, value |-> parsed.value]

\* the inner try of generateObject: the text kept for the history and the
\* object parsed from it
ParseReply(env, text) ==
    IF env.provider = "openai"
    THEN LET parsed == JSONParse(text)
             results == Prop(parsed.value, "___results")
         IN  [ ok |-> parsed.ok /\ parsed.value.t # "null",
               text |-> text,
               value |-> IF ~Falsy(results) THEN results ELSE parsed.value ]
    ELSE LET parsed == JSONParse(GeminiTrim(text))
         IN  [ok |-> parsed.ok, text |-> GeminiTrim(text), value |-> parsed.value]

\* ------------------------------------------------------------------------
\* State
\* ------------------------------------------------------------------------
VARIABLES
    cache,  \* a stand-alone LLMResponseCache
    now,    \* Date.now()
    last,   \* the last call made of the cache: its arguments, its result and
            \* the entries before it
    probe,  \* two requests hashed one after the other on a fresh cache
    env,          \* the provider and process.env
    textCache,    \* its textCache
    objectCache,  \* its objectCache
    inflight,     \* the calls that await the backend
    event,        \* the last step of a call: start (hit or dispatch) or settlement
    calls,        \* the number of calls made so far
    queue,        \* Queue.queue: the pending jobs
    isProcessing, \* Queue.isProcessing
    jobSet,       \* Queue.jobSet: the tracked ids
    workers,      \* the activations of processQueue that await a task, each
                  \* with its job
    qhist,        \* what the Queue has done so far
    instr,        \* one invocation of generateInstructions: where it stands,
                  \* its locals and what it has done so far
    adapter,      \* one schema on its way through generateObject: the schema
                  \* of the caller, the schema sent and the parsed reply
    config,       \* a cache built from given options, with the options
    share,        \* a text cache whose values are objects on the heap, and
                  \* the callers that hold them
    resolver      \* the datastore and one call of upsertIntegrationResolver
                  \* with its documentation task

vars ==
    << cache, now, last, probe, env, textCache, objectCache, inflight, event, calls,
       queue, isProcessing, jobSet, workers, qhist, instr, adapter,
       config, share, resolver >>

modelVars == << env, textCache, objectCache, inflight, event, calls >>

queueVars == << queue, isProcessing, jobSet, workers, qhist >>

\* the variables of the parts modelled further down
otherVars == << queueVars, instr, adapter, config, share, resolver >>

NoRequest == Request(<<>>, Undefined, Undefined)

Call(op, r, v, ret, before, t) ==
    [op |-> op, req |-> r, value |-> v, ret |-> ret, before |-> before, t |-> t]

NoCall == Call("new", NoRequest, Undefined, Undefined, <<>>, 0)

NoProbe ==
    [stage |-> "new", a |-> NoRequest, b |-> NoRequest, keyA |-> 0, keyB |-> 0,
     c |-> NewCache(Absent, Absent, Absent), ret |-> Undefined]

Event(kind, call, wrote, result, t) ==
    [ kind |-> kind, op |-> call.op, messages |-> call.messages, schema |-> call.schema,
      temperature |-> call.temperature, read |-> call.read, dropped |-> call.dropped,
      wrote |-> wrote, result |-> result, t |-> t ]

\* a call of generateText or generateObject; read: it has looked its request
\* up in the cache, dropped: the lookup has deleted an entry
LLMCall(op, messages, schema, temperature, e, read, dropped) ==
    [ op |-> op, messages |-> messages, schema |-> schema, temperature |-> temperature,
      temp |-> LocalTemperature(e, temperature),
      setSchema |-> IF op = "object" THEN SetSchema(e, schema) ELSE Undefined,
      sent |-> IF op = "object" THEN SentSchema(e, schema) ELSE Undefined,
      read |-> read, dropped |-> dropped ]

NoEnv ==
    [ provider |-> "none", OPENAI_MODEL |-> Absent, LLM_CACHE_ENABLED |-> Absent,
      LLM_CACHE_TTL |-> Absent, LLM_CACHE_SIZE |-> Absent ]

NoEvent == Event("new", LLMCall("none", <<>>, Undefined, Undefined, NoEnv, FALSE, FALSE), FALSE, Undefined, 0)

\* new Queue(): nothing done yet
NoHistory ==
    [ accepted |-> << >>, started |-> << >>, settled |-> 0, notices |-> 0, errors |-> 0,
      raised |-> FALSE, enqueues |-> 0,
      last |-> [op |-> "new", id |-> "", task |-> "", from |-> "", outcome |-> ""] ]

\* generateInstructions not called yet
NoInvocation ==
    [ pc |-> "new", retryCount |-> 0, messages |-> << >>, attempts |-> << >>,
      log |-> << >>, settled |-> << >>, result |-> << >>, error |-> "" ]

\* no schema given to generateObject yet
NoAdapter ==
    [ stage |-> "new", provider |-> "none", schema |-> Undefined, caller |-> Undefined,
      sent |-> Undefined, text |-> "", ok |-> FALSE, value |-> Undefined ]

\* no cache built yet
NoConfig ==
    [ stage |-> "new", via |-> "", maxAge |-> Absent, maxSize |-> Absent,
      c |-> NewCache(Absent, Absent, Absent), ret |-> Undefined ]

\* no call made yet: the text cache is empty and so is the heap
NoShare ==
    [ c |-> NewCache(Absent, Absent, Absent), heap |-> << >>, made |-> << >>,
      pending |-> << >>, held |-> << >>, hits |-> << >> ]

\* upsertIntegrationResolver not called yet, nothing stored under the id
NoResolver ==
    [ store |-> << >>, pc |-> "new", input |-> << >>, at |-> 0, old |-> << >>,
      line |-> 0, shouldFetchDoc |-> FALSE, integration |-> << >>,
      task |-> [pc |-> "none", path |-> "", docString |-> << >>, write |-> << >>],
      deleted |-> FALSE, failed |-> FALSE ]

IdleQueue ==
    /\ queue = << >>
    /\ isProcessing = FALSE
    /\ jobSet = {}
    /\ workers = << >>
    /\ qhist = NoHistory

IdleModel ==
    /\ env = NoEnv
    /\ textCache = ProviderCache(NoEnv)
    /\ objectCache = ProviderCache(NoEnv)
    /\ inflight = <<>>
    /\ event = NoEvent
    /\ calls = 0
    /\ IdleQueue
    /\ instr = NoInvocation
    /\ adapter = NoAdapter
    /\ config = NoConfig
    /\ share = NoShare
    /\ resolver = NoResolver

AgeOptions == {Absent} \cup {Given(n) : n \in 0..MaxAgeOpt}
SizeOptions == {Absent} \cup {Given(n) : n \in 0..MaxSizeOpt}
EnabledOptions == {Absent, Given(TRUE), Given(FALSE)}

\* ------------------------------------------------------------------------
\* The stand-alone cache: any sequence of get, set and clear, with time passing
\* ------------------------------------------------------------------------
InitCache ==
    /\ cache \in {NewCache(a, s, e) : a \in AgeOptions, s \in SizeOptions, e \in EnabledOptions}
    /\ now = 0
    /\ last = NoCall
    /\ probe = NoProbe
    /\ IdleModel

\* vi.advanceTimersByTime
Tick ==
    /\ now < MaxTime
    /\ now' = now + 1
    /\ UNCHANGED << cache, last, probe, modelVars, otherVars >>

Get(r) ==
    LET got == CacheGet(cache, r.messages, r.temperature, r.schema, now)
    IN  /\ cache' = got.c
        /\ last' = Call("get", r, Undefined, got.ret, cache.cache, now)
        /\ UNCHANGED << now, probe, modelVars, otherVars >>

Set(r, v) ==
    /\ cache' = CacheSet(cache, r.messages, r.temperature, v, r.schema, now)
    /\ last' = Call("set", r, v, Undefined, cache.cache, now)
    /\ UNCHANGED << now, probe, modelVars, otherVars >>

Clear ==
    /\ cache' = CacheClear(cache)
    /\ last' = Call("clear", NoRequest, Undefined, Undefined, cache.cache, now)
    /\ UNCHANGED << now, probe, modelVars, otherVars >>

NextCache ==
    \/ Tick
    \/ \E r \in CacheRequests : Get(r)
    \/ \E r \in CacheRequests, v \in CacheValues : Set(r, v)
    \/ Clear

SpecCache == InitCache /\ [][NextCache]_vars

Spec == SpecCache

\* ------------------------------------------------------------------------
\* Two requests on a fresh cache: set with the first, get with the second
\* ------------------------------------------------------------------------
ProbeValue == Str("test response")

InitKey ==
    /\ cache = NewCache(Absent, Absent, Absent)
    /\ now = 0
    /\ last = NoCall
    /\ probe = NoProbe
    /\ IdleModel

ProbeSet(a) ==
    /\ probe' = [ stage |-> "set", a |-> a, b |-> NoRequest,
                  keyA |-> Key(a.messages, a.temperature, a.schema), keyB |-> 0,
                  c |-> CacheSet(NewCache(Absent, Absent, Absent),
                                 a.messages, a.temperature, ProbeValue, a.schema, now),
                  ret |-> Undefined ]
    /\ UNCHANGED << cache, now, last, modelVars, otherVars >>

ProbeGet(b) ==
    /\ probe.stage \in {"set", "get"}
    /\ probe' = [ probe EXCEPT
                    !.stage = "get",
                    !.b = b,
                    !.keyB = Key(b.messages, b.temperature, b.schema),
                    !.ret = CacheGet(probe.c, b.messages, b.temperature, b.schema, now).ret ]
    /\ UNCHANGED << cache, now, last, modelVars, otherVars >>

NextKey ==
    \/ \E a \in KeyRequests : ProbeSet(a)
    \/ \E b \in KeyRequests : ProbeGet(b)

SpecKey == InitKey /\ [][NextKey]_vars

\* ------------------------------------------------------------------------
\* One provider instance: calls start, await the backend and settle
\* ------------------------------------------------------------------------
MaxCalls == 2

Env(provider, model, enabled, ttl) ==
    [ provider |-> provider, OPENAI_MODEL |-> model, LLM_CACHE_ENABLED |-> enabled,
      LLM_CACHE_TTL |-> ttl, LLM_CACHE_SIZE |-> Absent ]

Environments ==
    { Env("openai", Absent, Absent, Absent),
      Env("openai", Given("gpt-4o-mini"), Absent, Given(MaxAgeOpt)),
      Env("openai", Given("gpt-4o-mini"), Given("false"), Absent),
      Env("openai", Given("o3-mini"), Absent, Absent),
      Env("gemini", Absent, Absent, Absent),
      Env("gemini", Absent, Absent, Given(MaxAgeOpt)),
      Env("gemini", Absent, Given("false"), Absent) }

InitModel ==
    /\ env \in Environments
    /\ textCache = ProviderCache(env)
    /\ objectCache = ProviderCache(env)
    /\ inflight = <<>>
    /\ event = NoEvent
    /\ calls = 0
    /\ now = 0
    /\ cache = NewCache(Absent, Absent, Absent)
    /\ last = NoCall
    /\ probe = NoProbe
    /\ IdleQueue
    /\ instr = NoInvocation
    /\ adapter = NoAdapter
    /\ config = NoConfig
    /\ share = NoShare
    /\ resolver = NoResolver

Remove(seq, i) == [j \in 1..(Len(seq) - 1) |-> IF j < i THEN seq[j] ELSE seq[j + 1]]

\* time passes while calls are awaited or between calls
ModelTick ==
    /\ now < MaxTime
    /\ now' = now + 1
    /\ UNCHANGED << cache, last, probe, modelVars, otherVars >>

\* generateText(messages, temperature) up to its await
GenerateText(messages, temperature) ==
    LET look == Lookup(textCache, messages, temperature, Undefined, now)
        call == LLMCall("text", messages, Undefined, temperature, env, look.read,
                       look.c # textCache)
    IN  /\ calls < MaxCalls
        /\ calls' = calls + 1
        /\ textCache' = look.c
        /\ IF ~Falsy(look.ret)
           THEN /\ event' = Event("hit", call, FALSE, look.ret, now)
                /\ UNCHANGED inflight
           ELSE /\ inflight' = Append(inflight, call)
                /\ event' = Event("dispatch", call, FALSE, Undefined, now)
        /\ UNCHANGED << cache, now, last, probe, env, objectCache, otherVars >>

\* generateObject(messages, schema, temperature) up to its await
GenerateObject(messages, schema, temperature) ==
    LET look == Lookup(objectCache, messages, temperature, schema, now)
        call == LLMCall("object", messages, schema, temperature, env, look.read,
                       look.c # objectCache)
    IN  /\ calls < MaxCalls
        /\ calls' = calls + 1
        /\ objectCache' = look.c
        /\ IF ~Falsy(look.ret)
           THEN /\ event' = Event("hit", call, FALSE, look.ret, now)
                /\ UNCHANGED inflight
           ELSE /\ inflight' = Append(inflight, call)
                /\ event' = Event("dispatch", call, FALSE, Undefined, now)
        /\ UNCHANGED << cache, now, last, probe, env, textCache, otherVars >>

\* the backend answers call i of generateText with `text`
ReplyText(i, text) ==
    LET call == inflight[i]
        response == Response(call.messages, Str(text), text)
        store == Store(textCache, call.messages, call.temp, response, Undefined, now)
    IN  /\ call.op = "text"
        /\ textCache' = store.c
        /\ inflight' = Remove(inflight, i)
        /\ event' = Event("return", call, store.wrote, response, now)
        /\ UNCHANGED << cache, now, last, probe, env, objectCache, calls, otherVars >>

\* the backend answers call i of generateObject with `text`
ReplyObject(i, text) ==
    LET call == inflight[i]
        parsed == ParseReply(env, text)
        response == Response(call.messages, parsed.value, parsed.text)
        store == Store(objectCache, call.messages, call.temp, response, call.setSchema, now)
    IN  /\ call.op = "object"
        /\ inflight' = Remove(inflight, i)
        /\ IF parsed.ok
           THEN /\ objectCache' = store.c
                /\ event' = Event("return", call, store.wrote, response, now)
           ELSE /\ event' = Event("throw", call, FALSE, Undefined, now)
                /\ UNCHANGED objectCache
        /\ UNCHANGED << cache, now, last, probe, env, textCache, calls, otherVars >>

\* the backend call of call i fails
BackendError(i) ==
    /\ inflight' = Remove(inflight, i)
    /\ event' = Event("throw", inflight[i], FALSE, Undefined, now)
    /\ UNCHANGED << cache, now, last, probe, env, textCache, objectCache, calls, otherVars >>

NextModel ==
    \/ ModelTick
    \/ \E m \in ProviderMessages, t \in ProviderTemperatures : GenerateText(m, t)
    \/ \E m \in ObjectMessages, sc \in ProviderSchemas, t \in ProviderTemperatures :
          GenerateObject(m, sc, t)
    \/ \E i \in DOMAIN inflight, text \in TextReplies : ReplyText(i, text)
    \/ \E i \in DOMAIN inflight, text \in ObjectReplies : ReplyObject(i, text)
    \/ \E i \in DOMAIN inflight : BackendError(i)

SpecModel == InitModel /\ [][NextModel]_vars

\* the cache a call works with
CacheOf(op) == IF op = "text" THEN textCache ELSE objectCache

\* C1: a call of generateText or generateObject whose temperature is not 0
\* never reads and never writes its cache and always goes to the backend; get
\* and set are invoked only by calls of temperature 0, and the steps of a call
\* of another temperature leave both caches as they were.
C1_TemperatureGate ==
    /\ [](/\ \A i \in DOMAIN inflight :
                inflight[i].read => inflight[i].temperature = Zero
          /\ (event.read \/ event.wrote) => event.temperature = Zero
          /\ (event.kind # "new" /\ event.temperature # Zero) => event.kind # "hit")
    /\ [][(inflight' # inflight /\ event'.temperature # Zero)
            => UNCHANGED << textCache, objectCache >>]_vars

\* a call of temperature 0.3 has returned from the backend while its cache,
\* enabled, holds an entry for its messages at temperature 0
C1_Witness ==
    /\ event.kind = "return" /\ event.temperature = Num("0.3")
    /\ CacheOf(event.op).enabled
    /\ \E sc \in {Undefined} \cup ProviderSchemas \cup {OpenAISchema(x) : x \in ProviderSchemas} :
          MapHas(CacheOf(event.op).cache, Key(event.messages, Zero, sc))
    /\ ~event.read /\ ~event.wrote

\* What a call of request (messages, schema, 0) made now would find in cache c
WouldHit(c, e) == CacheGet(c, e.messages, Zero, e.schema, now).ret

\* C2: when generateObject(M, S, 0) has returned the answer of the backend and
\* the cache is enabled, the objectCache holds that answer under the key of
\* (M, 0, S) for as long as the entry is unexpired, so that the same call made
\* again is answered from the cache.
C2_ObjectHitAfterReturn ==
    (event.kind = "return" /\ event.op = "object" /\ event.temperature = Zero
        /\ objectCache.enabled /\ now - event.t <= objectCache.maxAge)
        => WouldHit(objectCache, event) = event.result

\* C3: when generateText(M, 0) has returned the answer of the backend and the
\* cache is enabled, the textCache holds that answer under the key of (M, 0)
\* for as long as the entry is unexpired, whatever model is configured.
C3_TextHitAfterReturn ==
    (event.kind = "return" /\ event.op = "text" /\ event.temperature = Zero
        /\ textCache.enabled /\ now - event.t <= textCache.maxAge)
        => WouldHit(textCache, event) = event.result

AdapterSchemas ==
    { Undefined, schemaName, schemaStrings, TypeOf("number"),
      Obj(<< << "type", Str("object") >>,
             << "patternProperties", Obj(<< << "^x", TypeOf("string") >> >>) >> >>),
      Obj(<< << "type", Str("array") >>, << "minItems", Num("1") >> >>),
      Obj(<< << "type", Str("object") >>,
             << "properties",
                Obj(<< << "tags",
                          Obj(<< << "type", Str("array") >>, << "items", TypeOf("string") >>,
                                 << "minItems", Num("1") >>, << "maxItems", Num("5") >> >>) >> >>) >>,
             << "patternProperties", Obj(<< << "^x", TypeOf("string") >> >>) >>,
             << "required", Arr(<< Str("tags") >>) >> >>),
      Obj(<< << "$schema", Str("http://json-schema.org/draft-07/schema#") >>,
             << "type", Str("object") >>,
             << "properties", Obj(<< << "name", TypeOf("string") >> >>) >>,
             << "additionalProperties", True >>,
             << "optional", True >> >>),
      Obj(<< << "type", Str("object") >>,
             << "properties",
                Obj(<< << "user",
                          Obj(<< << "type", Str("object") >>,
                                 << "properties", Obj(<< << "name", TypeOf("string") >> >>) >>,
                                 << "additionalProperties", True >> >>) >> >>) >>,
             << "required", Arr(<< Str("user") >>) >> >>),
      Obj(<< << "type", Str("array") >>,
             << "items",
                Obj(<< << "type", Str("object") >>,
                       << "properties", Obj(<< << "name", TypeOf("string") >> >>) >>,
                       << "optional", True >> >>) >> >>),
      Obj(<< << "type", Str("object") >>,
             << "properties",
                Obj(<< << "name", TypeOf("string") >>, << "age", TypeOf("number") >> >>) >>,
             << "required", Arr(<< Str("name") >>) >> >>) }

InitSchema ==
    /\ adapter \in { [NoAdapter EXCEPT !.schema = sc, !.caller = sc] : sc \in AdapterSchemas }
    /\ now = 0
    /\ cache = NewCache(Absent, Absent, Absent)
    /\ last = NoCall
    /\ probe = NoProbe
    /\ env = NoEnv
    /\ textCache = ProviderCache(NoEnv)
    /\ objectCache = ProviderCache(NoEnv)
    /\ inflight = <<>>
    /\ event = NoEvent
    /\ calls = 0
    /\ IdleQueue
    /\ instr = NoInvocation
    /\ config = NoConfig
    /\ share = NoShare
    /\ resolver = NoResolver

\* (variant of the preparation: the adapters write to the object of the
\* caller. The object enforceStrictSchema is given holds afterwards what a
\* call that is not the root call returns.)
Prepare_InPlace(provider) ==
    /\ adapter.stage = "new"
    /\ adapter' = [adapter EXCEPT
                      !.stage = "sent",
                      !.provider = provider,
                      !.caller = IF provider = "openai"
                                 THEN enforceStrictSchema(adapter.schema, FALSE)
                                 ELSE cleanSchemaForGemini(adapter.schema),
                      !.sent = SentSchema(Env(provider, Absent, Absent, Absent), adapter.schema)]
    /\ UNCHANGED << cache, now, last, probe, modelVars, queueVars, instr, config, share, resolver >>

\* generateObject of a provider prepares the schema it sends. caller is the
\* object the caller holds: cleanSchemaForGemini writes to the copy it makes
\* first, and enforceStrictSchema writes to the object addNullableToOptional
\* has returned, a copy as well.
Prepare(provider) ==
    /\ adapter.stage = "new"
    /\ adapter' = [adapter EXCEPT
                      !.stage = "sent",
                      !.provider = provider,
                      !.caller = @,
                      !.sent = SentSchema(Env(provider, Absent, Absent, Absent), adapter.schema)]
    /\ UNCHANGED << cache, now, last, probe, modelVars, queueVars, instr, config, share, resolver >>

\* the backend has replied with `text`: the inner try of generateObject
Parse(text) ==
    LET parsed == ParseReply(Env(adapter.provider, Absent, Absent, Absent), text)
    IN  /\ adapter.stage = "sent"
        /\ adapter' = [adapter EXCEPT !.stage = "parsed", !.text = text, !.ok = parsed.ok,
                                      !.value = IF parsed.ok THEN parsed.value ELSE Undefined]
        /\ UNCHANGED << cache, now, last, probe, modelVars, queueVars, instr, config, share, resolver >>

NextSchema ==
    \/ \E provider \in { "openai", "gemini" } : Prepare(provider)
    \/ \E text \in ObjectReplies \cup
                     { "{\"___results\":0}", "{\"___results\":false}", "{\"___results\":\"\"}",
                       "{\"___results\":null}", "{\"___results\":5}",
                       "{\"name\":\"Ada\"} Hope this helps!", "Here you go: [\"a\"] Done.",
                       "The answer is 5", "[\"a\"]", "5" } :
          Parse(text)

SpecSchema == InitSchema /\ [][NextSchema]_vars

\* the nodes of a schema: the schema itself, the schemas of its properties and
\* of its items, and their nodes
RECURSIVE SchemaNodes(_)
SchemaNodes(schema) ==
    IF schema.t # "object" THEN {}
    ELSE LET props == Prop(schema, "properties")
         IN  {schema}
               \cup UNION { SchemaNodes(props.kv[i][2]) : i \in DOMAIN props.kv }
               \cup SchemaNodes(Prop(schema, "items"))

\* the caller has given a schema and the provider has prepared the one it sends
Prepared(provider) ==
    adapter.stage # "new" /\ adapter.provider = provider /\ adapter.schema.t = "object"

C27_StrictEverywhere ==
    Prepared("openai") =>
        \A n \in SchemaNodes(adapter.sent) :
            /\ Prop(n, "type") = Str("object") =>
                  /\ Prop(n, "additionalProperties") = False
                  /\ HasOwn(n, "properties") =>
                        Prop(n, "required") = KeysArray(Prop(n, "properties"))
            /\ ~HasOwn(n, "patternProperties")
            /\ ~HasOwn(n, "minItems")
            /\ ~HasOwn(n, "maxItems")

\* C28: a root schema that is not of type object is sent wrapped in an object
\* whose only property is ___results, and whatever value the reply holds
\* under that key, falsy or not, is what generateObject returns; with a root
\* schema of type object the parsed reply is returned as it is.
C28_RootWrapping ==
    Prepared("openai") =>
        LET wrapped == Prop(adapter.schema, "type") # Str("object")
            parsed == JSONParse(adapter.text).value
        IN  /\ wrapped =>
                  /\ Prop(adapter.sent, "type") = Str("object")
                  /\ ObjectKeys(Prop(adapter.sent, "properties")) = << "___results" >>
            /\ (adapter.stage = "parsed" /\ adapter.ok) =>
                  IF wrapped
                  THEN HasOwn(parsed, "___results") => adapter.value = Prop(parsed, "___results")
                  ELSE adapter.value = parsed

\* C29: in the schema cleanSchemaForGemini returns, no node, at the root, in
\* the properties or in the items, has $schema, additionalProperties or
\* optional, and every node that has properties has a required list that
\* names them all.
C29_GeminiCleanEverywhere ==
    Prepared("gemini") =>
        \A n \in SchemaNodes(adapter.sent) :
            /\ ~HasOwn(n, "$schema")
            /\ ~HasOwn(n, "additionalProperties")
            /\ ~HasOwn(n, "optional")
            /\ HasOwn(n, "properties") =>
                  Prop(n, "required") = KeysArray(Prop(n, "properties"))

\* the JSON payload inside a reply that carries prose before or after it
ProsePayload(text) ==
    CASE text = "Sure: {\"name\":\"Ada\"}" -> Obj(<< << "name", Str("Ada") >> >>)
      [] text = "{\"name\":\"Ada\"} Hope this helps!" -> Obj(<< << "name", Str("Ada") >> >>)
      [] text = "Here you go: [\"a\"] Done." -> Arr(<< Str("a") >>)
      [] text = "The answer is 5" -> Num("5")
      [] OTHER -> Undefined

\* C31: for both providers, a reply that is a valid JSON payload (object, array
\* or primitive) with prose before or after it is parsed, and generateObject
\* returns the payload instead of failing.
C31_ProseTrimmed ==
    (adapter.stage = "parsed" /\ ProsePayload(adapter.text) # Undefined) =>
        /\ adapter.ok
        /\ adapter.value = ProsePayload(adapter.text)

\* ------------------------------------------------------------------------
\* Queue: enqueue and the worker loop processQueue
\* ------------------------------------------------------------------------
MaxEnqueues == 3

QueueIds == { "a", "b", "c" }

\* t1 and t2 return a promise that resolves or rejects later; boom throws
\* before it returns one
QueueTasks == { "t1", "t2", "boom" }

SyncThrows(task) == task = "boom"

\* { id, task }
Job(id, task) == [id |-> id, task |-> task]

NoJob == Job("", "")

\* the Queue object, with what it has done so far
QueueObject ==
    [ queue |-> queue, isProcessing |-> isProcessing, jobSet |-> jobSet,
      workers |-> workers, h |-> qhist ]

\* (variant of the settlement: the id is released only when the task returned)
Settled_DeleteInTry(q, job, failed) ==
    [q EXCEPT !.h.errors = IF failed THEN @ + 1 ELSE @,
              !.h.settled = @ + 1,
              !.jobSet = IF failed THEN @ ELSE @ \ {job.id}]

\* catch (error) { logMessage('error', ...) } finally { this.jobSet.delete(job.id) }
Settled(q, job, failed) ==
    [q EXCEPT !.h.errors = IF failed THEN @ + 1 ELSE @,
              !.h.settled = @ + 1,
              !.jobSet = @ \ {job.id}]

\* (variant of the loop: the job is taken from the end of the list)
RECURSIVE ProcessLoop_Pop(_)
ProcessLoop_Pop(q) ==
    IF q.queue = << >>
    THEN [q |-> [q EXCEPT !.isProcessing = FALSE], job |-> NoJob, threw |-> FALSE]
    ELSE LET job == q.queue[Len(q.queue)]
             q1 == [q EXCEPT !.queue = SubSeq(@, 1, Len(@) - 1),
                             !.h.started = Append(@, job)]
         IN  IF SyncThrows(job.task)
             THEN ProcessLoop_Pop(Settled(q1, job, TRUE))
             ELSE [q |-> q1, job |-> job, threw |-> FALSE]

\* (variant of the loop: without the catch, the error of a task that throws
\* leaves processQueue after the finally)
RECURSIVE ProcessLoop_NoCatch(_)
ProcessLoop_NoCatch(q) ==
    IF q.queue = << >>
    THEN [q |-> [q EXCEPT !.isProcessing = FALSE], job |-> NoJob, threw |-> FALSE]
    ELSE LET job == Head(q.queue)
             q1 == [q EXCEPT !.queue = Tail(@), !.h.started = Append(@, job)]
         IN  IF SyncThrows(job.task)
             THEN [q |-> [q1 EXCEPT !.jobSet = @ \ {job.id}, !.h.settled = @ + 1],
                   job |-> NoJob, threw |-> TRUE]
             ELSE [q |-> q1, job |-> job, threw |-> FALSE]

\* (variant of the loop: isProcessing is not reset when the loop ends)
RECURSIVE ProcessLoop_NoReset(_)
ProcessLoop_NoReset(q) ==
    IF q.queue = << >>
    THEN [q |-> q, job |-> NoJob, threw |-> FALSE]
    ELSE LET job == Head(q.queue)
             q1 == [q EXCEPT !.queue = Tail(@), !.h.started = Append(@, job)]
         IN  IF SyncThrows(job.task)
             THEN ProcessLoop_NoReset(Settled(q1, job, TRUE))
             ELSE [q |-> q1, job |-> job, threw |-> FALSE]

\* The while loop of processQueue from its test to its next await, or to its
\* end: the object afterwards, the job whose task is now awaited (NoJob when
\* the loop has ended and reset isProcessing) and whether an error left it.
RECURSIVE ProcessLoop(_)
ProcessLoop(q) ==
    IF q.queue = << >>
    THEN [q |-> [q EXCEPT !.isProcessing = FALSE], job |-> NoJob, threw |-> FALSE]
    ELSE LET job == Head(q.queue)
             q1 == [q EXCEPT !.queue = Tail(@), !.h.started = Append(@, job)]
         IN  IF SyncThrows(job.task)
             THEN ProcessLoop(Settled(q1, job, TRUE))
             ELSE [q |-> q1, job |-> job, threw |-> FALSE]

\* (variant of processQueue: without the test of isProcessing)
processQueue_NoGuard(q) ==
    LET r == ProcessLoop([q EXCEPT !.isProcessing = TRUE])
    IN  IF r.job = NoJob THEN r
        ELSE [r EXCEPT !.q.workers = Append(@, r.job)]

\* processQueue() up to its first await
processQueue(q) ==
    IF q.isProcessing THEN [q |-> q, job |-> NoJob, threw |-> FALSE]
    ELSE LET r == ProcessLoop([q EXCEPT !.isProcessing = TRUE])
         IN  IF r.job = NoJob THEN r
             ELSE [r EXCEPT !.q.workers = Append(@, r.job)]

\* (variant of enqueue: a job is pushed whether or not its id is tracked)
QueueEnqueue_NoDedup(q, id, task) ==
    processQueue([q EXCEPT !.queue = Append(@, Job(id, task)),
                           !.jobSet = @ \cup {id},
                           !.h.accepted = Append(@, Job(id, task))])

\* enqueue(id, task)
QueueEnqueue(q, id, task) ==
    IF id \notin q.jobSet
    THEN processQueue([q EXCEPT !.queue = Append(@, Job(id, task)),
                                !.jobSet = @ \cup {id},
                                !.h.accepted = Append(@, Job(id, task))])
    ELSE [q |-> [q EXCEPT !.h.notices = @ + 1], job |-> NoJob, threw |-> FALSE]

\* the variables take the fields of the object q, with the step recorded
QueueBecomes(q, step, threw) ==
    /\ queue' = q.queue
    /\ isProcessing' = q.isProcessing
    /\ jobSet' = q.jobSet
    /\ workers' = q.workers
    /\ qhist' = [q.h EXCEPT !.last = step, !.raised = @ \/ threw]

InitQueue ==
    /\ IdleQueue
    /\ now = 0
    /\ cache = NewCache(Absent, Absent, Absent)
    /\ last = NoCall
    /\ probe = NoProbe
    /\ IdleModel

\* a call of enqueue(id, task), by a caller outside or by the running task
Enqueue(id, task, from) ==
    LET r == QueueEnqueue([QueueObject EXCEPT !.h.enqueues = @ + 1], id, task)
    IN  /\ qhist.enqueues < MaxEnqueues
        /\ from = "task" => workers # << >>
        /\ QueueBecomes(r.q, [op |-> "enqueue", id |-> id, task |-> task, from |-> from,
                              outcome |-> IF id \in jobSet THEN "duplicate" ELSE "accepted"],
                        r.threw)
        /\ UNCHANGED << cache, now, last, probe, modelVars, instr, adapter, config, share, resolver >>

\* the task awaited by activation w settles: the catch if it rejected, the
\* finally, and the loop up to its next await or its end
Settle(w, outcome) ==
    LET job == workers[w]
        r == ProcessLoop(Settled(QueueObject, job, outcome = "reject"))
        q == [r.q EXCEPT !.workers = IF r.job = NoJob THEN Remove(@, w)
                                     ELSE [@ EXCEPT ![w] = r.job]]
    IN  /\ QueueBecomes(q, [op |-> "settle", id |-> job.id, task |-> job.task, from |-> "",
                            outcome |-> outcome], FALSE)
        /\ UNCHANGED << cache, now, last, probe, modelVars, instr, adapter, config, share, resolver >>

NextQueue ==
    \/ \E id \in QueueIds, task \in QueueTasks, from \in {"caller", "task"} :
          Enqueue(id, task, from)
    \/ \E w \in DOMAIN workers, outcome \in {"resolve", "reject"} : Settle(w, outcome)

SpecQueue == InitQueue /\ [][NextQueue]_vars

\* every task that was invoked settles in the end: the promise awaited by the
\* loop resolves or rejects
SpecQueueLive ==
    SpecQueue /\ WF_vars(\E w \in DOMAIN workers, outcome \in {"resolve", "reject"} :
                            Settle(w, outcome))

\* the ids of the jobs in a list
IdsOf(jobs) == {jobs[i].id : i \in DOMAIN jobs}

\* the ids of the jobs that are queued or running
InFlightIds == IdsOf(queue) \cup IdsOf(workers)

\* how often job j occurs in a list
Occurrences(jobs, j) == Cardinality({i \in DOMAIN jobs : jobs[i] = j})

\* the step is a call of enqueue / the settlement of a task
IsEnqueueStep == qhist'.enqueues = qhist.enqueues + 1
IsSettleStep == qhist'.enqueues = qhist.enqueues /\ qhist'.last.op = "settle" /\ qhist' # qhist

\* C12: a call enqueue(id, t2) made while a job with that id is queued or
\* running changes nothing but the log, which gets one notice: the pending
\* list, the tracked ids, the worker and the tasks started stay as they are,
\* so t2 is never invoked; and no job is started more often than it was
\* accepted, so the task of the job in flight is invoked once.
C12_Deduplication ==
    /\ [][(IsEnqueueStep /\ qhist'.last.id \in InFlightIds) =>
            /\ UNCHANGED << queue, jobSet, isProcessing, workers >>
            /\ qhist'.notices = qhist.notices + 1
            /\ qhist'.started = qhist.started
            /\ qhist'.accepted = qhist.accepted]_vars
    /\ [](\A id \in QueueIds, task \in QueueTasks :
            Occurrences(qhist.started, Job(id, task))
                <= Occurrences(qhist.accepted, Job(id, task)))

\* enqueue(a, t2) was called while the job (a, t1) was running, and logged
C12_Witness ==
    /\ qhist.last.op = "enqueue" /\ qhist.last.task = "t2"
    /\ qhist.last.outcome = "duplicate"
    /\ workers = << Job(qhist.last.id, "t1") >>
    /\ qhist.notices = 1
    /\ qhist.started = << Job(qhist.last.id, "t1") >>

\* C13: the tasks are started in the order in which their enqueue calls were
\* accepted: the jobs started so far are the first of the jobs accepted.
C13_FifoOrder ==
    /\ Len(qhist.started) <= Len(qhist.accepted)
    /\ qhist.started = SubSeq(qhist.accepted, 1, Len(qhist.started))

\* a, b and c were enqueued in that order, b and c while a was running, and
\* were started in that order
C13_Witness ==
    /\ Len(qhist.started) = 3
    /\ << qhist.started[1].id, qhist.started[2].id, qhist.started[3].id >> = << "a", "b", "c" >>
    /\ qhist.started[1].task # "boom"
    /\ qhist.notices = 0

\* C14: at most one activation of processQueue is in its loop and at most one
\* task has been started and has not settled, whoever calls enqueue and
\* whenever; isProcessing tells whether there is one.
C14_Exclusivity ==
    /\ Len(workers) <= 1
    /\ Len(qhist.started) - qhist.settled <= 1
    /\ Len(qhist.started) - qhist.settled = Len(workers)
    /\ isProcessing <=> workers # << >>

\* the running task has called enqueue with a new id while its own job was
\* running: the job is queued and no second loop has started
C14_Witness ==
    /\ qhist.last.op = "enqueue" /\ qhist.last.from = "task"
    /\ qhist.last.outcome = "accepted"
    /\ Len(workers) = 1
    /\ queue = << Job(qhist.last.id, qhist.last.task) >>

\* C15: the failure of a task is caught in the loop: it is logged, it reaches
\* no caller of enqueue, and the loop goes on, so that the job queued behind
\* a task that rejects is started at once, and jobs wait only while a task is
\* awaited.
C15_FailureIsolation ==
    /\ [](~qhist.raised)
    /\ [](queue # << >> => workers # << >>)
    /\ [][(IsSettleStep /\ qhist'.last.outcome = "reject") =>
            /\ qhist'.errors > qhist.errors
            /\ queue # << >> =>
                  /\ Len(qhist'.started) > Len(qhist.started)
                  /\ qhist'.started[Len(qhist.started) + 1] = Head(queue)]_vars

\* the task of a rejected, the task of b behind it threw at once, and c behind
\* them was started
C15_Witness ==
    /\ qhist.last.op = "settle" /\ qhist.last.outcome = "reject"
    /\ Len(qhist.started) = 3
    /\ qhist.started[2].task = "boom"
    /\ workers = << qhist.started[3] >>
    /\ qhist.errors = 2

\* C16: the tracked ids are the ids of the pending jobs and of the running
\* one; the id of a job is released when its task settles, whether it
\* resolved or rejected, and an enqueue of an id that is not in flight is
\* accepted and tracks the id (until its task has settled, which for a task
\* that throws at once is within the call).
C16_TrackedIds ==
    /\ [](jobSet = InFlightIds)
    /\ [][IsSettleStep => qhist'.last.id \notin jobSet']_vars
    /\ [][(IsEnqueueStep /\ qhist'.last.id \notin InFlightIds) =>
            /\ qhist'.accepted = Append(qhist.accepted, Job(qhist'.last.id, qhist'.last.task))
            /\ \/ qhist'.last.id \in jobSet'
               \/ /\ SyncThrows(qhist'.last.task)
                  /\ qhist'.settled > qhist.settled]_vars

\* an id whose task has rejected was enqueued again and runs again
C16_Witness ==
    /\ Len(qhist.started) = 2
    /\ qhist.started[1].id = qhist.started[2].id
    /\ qhist.errors = 1
    /\ workers = << qhist.started[2] >>

\* C32: provided every task settles in the end, every job accepted by enqueue
\* has its task invoked in the end, and exactly once: the tasks started are at
\* all times the first of the jobs accepted, in their order, and the n-th job
\* accepted leads to an n-th task started; and the pending list is never
\* non-empty while no activation of the loop is at work.
C32_QueueLiveness ==
    /\ [](/\ Len(qhist.started) <= Len(qhist.accepted)
          /\ qhist.started = SubSeq(qhist.accepted, 1, Len(qhist.started))
          /\ Len(qhist.accepted) = Len(qhist.started) + Len(queue)
          /\ queue # << >> => (isProcessing /\ workers # << >>))
    /\ \A n \in 1..MaxEnqueues :
          (Len(qhist.accepted) >= n) ~> (Len(qhist.started) >= n)

\* a third job is pending while the task of the second is awaited: it was
\* accepted in the middle of the loop, after the first task had settled or
\* while it was awaited
C32_Witness ==
    /\ Len(qhist.accepted) = 3
    /\ Len(qhist.started) = 2
    /\ qhist.settled = 1
    /\ Len(queue) = 1
    /\ isProcessing
    /\ workers = << qhist.accepted[2] >>

\* ------------------------------------------------------------------------
\* sanitizeInstructionSuggestions (instructions.ts). A string is the list of
\* its characters.
\* ------------------------------------------------------------------------
\* a string value, a number value
Text(chars) == [t |-> "string", s |-> chars, kv |-> << >>]
Number(chars) == [t |-> "number", s |-> chars, kv |-> << >>]

\* \s for the characters of the model
IsSpace(c) == c \in { " ", "\t", "\n", "\r" }

RECURSIVE TrimStart(_)
TrimStart(s) == IF s # << >> /\ IsSpace(Head(s)) THEN TrimStart(Tail(s)) ELSE s

RECURSIVE TrimEnd(_)
TrimEnd(s) ==
    IF s # << >> /\ IsSpace(s[Len(s)]) THEN TrimEnd(SubSeq(s, 1, Len(s) - 1)) ELSE s

\* s.trim()
Trim(s) == TrimEnd(TrimStart(s))

\* s.split(/\r?\n/)
RECURSIVE SplitLines(_)
SplitLines(s) ==
    LET breaks == {i \in DOMAIN s : s[i] = "\n"}
    IN  IF breaks = {} THEN << s >>
        ELSE LET i == CHOOSE b \in breaks : \A c \in breaks : b <= c
                 end == IF i > 1 /\ s[i - 1] = "\r" THEN i - 2 ELSE i - 1
             IN  << SubSeq(s, 1, end) >> \o SplitLines(SubSeq(s, i + 1, Len(s)))

\* s.replace(/^[-*]\s*/, "")
ReplaceBullet(s) ==
    IF s # << >> /\ s[1] \in { "-", "*" } THEN TrimStart(Tail(s)) ELSE s

\* the number of digits [0-9] s begins with
RECURSIVE LeadingDigits(_)
LeadingDigits(s) ==
    IF s # << >> /\ Head(s) \in { "0", "1", "2", "3", "4", "5", "6", "7", "8", "9" }
    THEN 1 + LeadingDigits(Tail(s))
    ELSE 0

\* s.replace(/^[0-9]+\.\s*/, "")
ReplaceNumber(s) ==
    LET k == LeadingDigits(s)
    IN  IF k >= 1 /\ Len(s) > k /\ s[k + 1] = "."
        THEN TrimStart(SubSeq(s, k + 2, Len(s)))
        ELSE s

\* s.replace(/^"|"$/g, ""): a quote at the start goes, and a quote at the end
\* of what follows it goes
ReplaceQuotes(s) ==
    LET s1 == IF s # << >> /\ s[1] = "\"" THEN Tail(s) ELSE s
    IN  IF s1 # << >> /\ s1[Len(s1)] = "\"" THEN SubSeq(s1, 1, Len(s1) - 1) ELSE s1

\* /^(\*\*.*\*\*|Individual Suggestions:|Integration Suggestions:)/i.test(s);
\* the dot stands for a character that ends no line, and with the flag i a
\* letter of the pattern stands for its small and its capital form
IsHeaderLine(s) ==
    LET individualLower ==
            << "i", "n", "d", "i", "v", "i", "d", "u", "a", "l", " ", "s",
               "u", "g", "g", "e", "s", "t", "i", "o", "n", "s", ":" >>
        individualUpper ==
            << "I", "N", "D", "I", "V", "I", "D", "U", "A", "L", " ", "S",
               "U", "G", "G", "E", "S", "T", "I", "O", "N", "S", ":" >>
        integrationLower ==
            << "i", "n", "t", "e", "g", "r", "a", "t", "i", "o", "n", " ",
               "s", "u", "g", "g", "e", "s", "t", "i", "o", "n", "s", ":" >>
        integrationUpper ==
            << "I", "N", "T", "E", "G", "R", "A", "T", "I", "O", "N", " ",
               "S", "U", "G", "G", "E", "S", "T", "I", "O", "N", "S", ":" >>
        StartsWith(lower, upper) ==
            /\ Len(s) >= Len(lower)
            /\ \A i \in DOMAIN lower : s[i] \in { lower[i], upper[i] }
    IN  \/ /\ Len(s) >= 4
           /\ s[1] = "*" /\ s[2] = "*"
           /\ \E j \in 3..(Len(s) - 1) :
                 /\ s[j] = "*" /\ s[j + 1] = "*"
                 /\ \A i \in 3..(j - 1) : s[i] \notin { "\n", "\r" }
        \/ StartsWith(individualLower, individualUpper)
        \/ StartsWith(integrationLower, integrationUpper)

\* arr.flatMap(item => typeof item === "string" ? item.split(...).map(trim) : [])
RECURSIVE FlattenLines(_)
FlattenLines(arr) ==
    IF arr = << >> THEN << >>
    ELSE LET item == Head(arr)
             lines == IF item.t = "string"
                      THEN LET parts == SplitLines(item.s)
                           IN  [i \in DOMAIN parts |-> Trim(parts[i])]
                      ELSE << >>
         IN  lines \o FlattenLines(Tail(arr))

\* sanitizeInstructionSuggestions(raw) for raw an array, null or undefined:
\* the list of the strings it returns
sanitizeInstructionSuggestions(raw) ==
    LET arr == IF raw.t = "array" THEN raw.kv ELSE << >>
        lines == FlattenLines(arr)
        mapped == [i \in DOMAIN lines |->
                      Trim(ReplaceQuotes(ReplaceNumber(ReplaceBullet(lines[i]))))]
    IN  SelectSeq(mapped, LAMBDA l : Len(l) > 0 /\ ~IsHeaderLine(l))

\* ------------------------------------------------------------------------
\* generateInstructions and attemptInstructionGeneration (instructions.ts).
\* LanguageModel.generateObject is the environment: it rejects with an error
\* or resolves with a response of its choice.
\* ------------------------------------------------------------------------
MAX_RETRIES == 3

\* the largest retry index attemptInstructionGeneration is applied to as a
\* function of its own
MaxRetryIndex == 5

\* 0.3 * n for n = 0, 1, 2, ... in double arithmetic, as String() prints them
Times03 ==
    << "0", "0.3", "0.6", "0.8999999999999999", "1.2", "1.5", "1.7999999999999998",
       "2.1", "2.4" >>

\* the doubles of the model, smallest first
NumberOrder ==
    << "0", "0.3", "0.6", "0.8999999999999999", "1", "1.2", "1.5",
       "1.7999999999999998", "2.1", "2.4" >>

\* a <= b
NumberLeq(a, b) ==
    LET Rank(n) == CHOOSE i \in DOMAIN NumberOrder : NumberOrder[i] = n.s
    IN  Rank(a) <= Rank(b)

\* Math.min(a, b)
MathMin(a, b) == IF NumberLeq(a, b) THEN a ELSE b

\* the temperature without the cap
AttemptTemperature_NoCap(retry) == Num(Times03[retry + 1])

\* let temperature = Math.min(0.3 * retry, 1.0)
AttemptTemperature(retry) == MathMin(Num(Times03[retry + 1]), Num("1"))

\* { role: "user", content: `The previous attempt failed with error:
\* ${error.message}. Please try again.` }
FeedbackMessage(message) ==
    Message("user",
        CASE message = "No valid instructions generated" ->
               "The previous attempt failed with error: No valid instructions generated. Please try again."
          [] message = "rate limit exceeded" ->
               "The previous attempt failed with error: rate limit exceeded. Please try again."
          [] message = "request timed out" ->
               "The previous attempt failed with error: request timed out. Please try again.")

\* the responses generateObject resolves with: no array, an empty array,
\* arrays with usable items, arrays whose items all go in the sanitizer
Responses ==
    { Null,
      Arr(<< >>),
      Arr(<< Text(<< "a" >>) >>),
      Arr(<< Text(<< "-", " ", "a", "\n", "1", ".", " ", "b" >>), Number(<< "4" >>) >>),
      Arr(<< Text(<< "*", "*", "H", "*", "*" >>), Text(<< "\"", "c", "\"" >>) >>),
      Arr(<< Text(<< "-" >>), Text(<< " " >>) >>),
      Arr(<< Number(<< "4" >>) >>),
      Arr(<< Text(<< "-", "*", "*", "H", "*", "*" >>) >>),
      Arr(<< Text(<< "1", ".", " ", "D", "o", " ", "X" >>),
             Text(<< "-", " ", "D", "o", " ", "Y" >>),
             Text(<< "\"", "D", "o", " ", "Z", "\"" >>),
             Text(<< "*", "*", "H", "e", "a", "d", "e", "r", "*", "*" >>) >>) }

\* (variant of the turn: the call is not awaited and the next one is made
\* at once)
StartAttempt_NoAwait(g) ==
    LET call == [ retry |-> g.retryCount, temperature |-> AttemptTemperature(g.retryCount),
                  schema |-> schemaStrings, messages |-> g.messages ]
    IN  [g EXCEPT !.pc = "awaiting",
                  !.log = Append(@, "info: generating"),
                  !.attempts = Append(Append(@, call), call)]

\* one turn of the while loop up to the await of attemptInstructionGeneration:
\* the log and the call of generateObject
StartAttempt(g) ==
    [g EXCEPT !.pc = "awaiting",
              !.log = Append(@, "info: generating"),
              !.attempts = Append(@, [ retry |-> g.retryCount,
                                       temperature |-> AttemptTemperature(g.retryCount),
                                       schema |-> schemaStrings,
                                       messages |-> g.messages ])]

\* (variant of the catch: the error thrown at the end is a generic one)
Catch_GenericError(g, message) ==
    LET g1 == [g EXCEPT !.retryCount = @ + 1]
    IN  IF g1.retryCount > MAX_RETRIES
        THEN [g1 EXCEPT !.pc = "thrown", !.error = "Instruction generation failed",
                        !.log = Append(@, "error: failed after retries")]
        ELSE StartAttempt([g1 EXCEPT !.log = Append(@, "warn: retrying"),
                                     !.messages = Append(@, FeedbackMessage(message))])

\* (variant of the catch: the feedback message is pushed before the bound is
\* looked at)
Catch_FeedbackFirst(g, message) ==
    LET g1 == [g EXCEPT !.retryCount = @ + 1,
                        !.messages = Append(@, FeedbackMessage(message))]
    IN  IF g1.retryCount > MAX_RETRIES
        THEN [g1 EXCEPT !.pc = "thrown", !.error = message,
                        !.log = Append(@, "error: failed after retries")]
        ELSE StartAttempt([g1 EXCEPT !.log = Append(@, "warn: retrying")])

\* the catch of generateInstructions, and the loop up to its next await
Catch(g, message) ==
    LET g1 == [g EXCEPT !.retryCount = @ + 1]
    IN  IF g1.retryCount > MAX_RETRIES
        THEN [g1 EXCEPT !.pc = "thrown", !.error = message,
                        !.log = Append(@, "error: failed after retries")]
        ELSE LET g2 == [g1 EXCEPT !.log = Append(@, "warn: retrying"),
                                  !.messages = Append(@, FeedbackMessage(message))]
             IN  IF g2.retryCount <= MAX_RETRIES
                 THEN StartAttempt(g2)
                 ELSE [g2 EXCEPT !.pc = "thrown",
                                 !.error = "Unexpected error in instruction generation"]

\* attemptInstructionGeneration after its await: what it returns or throws
AfterResponse(response) ==
    IF response.t # "array" \/ Len(response.kv) = 0
    THEN [threw |-> TRUE, message |-> "No valid instructions generated", value |-> << >>, logged |-> FALSE]
    ELSE LET sanitized == sanitizeInstructionSuggestions(response)
         IN  IF Len(sanitized) = 0
             THEN [threw |-> FALSE,
                   message |-> "Sanitization failed or returned no valid instructions",
                   value |-> << >>, logged |-> TRUE]
             ELSE [threw |-> FALSE, message |-> "", value |-> sanitized, logged |-> FALSE]

InitInstructions ==
    /\ instr = NoInvocation
    /\ adapter = NoAdapter
    /\ config = NoConfig
    /\ share = NoShare
    /\ resolver = NoResolver
    /\ now = 0
    /\ cache = NewCache(Absent, Absent, Absent)
    /\ last = NoCall
    /\ probe = NoProbe
    /\ IdleModel

\* generateInstructions(systems, metadata) is called: up to its first await
Generate ==
    /\ instr.pc # "awaiting"
    /\ instr' = StartAttempt([NoInvocation EXCEPT !.messages =
                     << Message("system", "You are an expert at suggesting specific, implementable workflows ..."),
                        Message("user", "Systems: [...]") >>])
    /\ UNCHANGED << cache, now, last, probe, modelVars, queueVars, adapter, config, share, resolver >>

\* generateObject resolves
Respond(response) ==
    LET r == AfterResponse(response)
        g == [instr EXCEPT !.settled = Append(@, [resolved |-> TRUE, response |-> response, message |-> ""])]
    IN  /\ instr.pc = "awaiting"
        /\ instr' = IF r.threw THEN Catch(g, r.message)
                    ELSE [g EXCEPT !.pc = "returned", !.result = r.value,
                                       !.log = IF r.logged
                                               THEN Append(@, "error: sanitization failed")
                                               ELSE @]
        /\ UNCHANGED << cache, now, last, probe, modelVars, queueVars, adapter, config, share, resolver >>

\* generateObject rejects
Reject(message) ==
    /\ instr.pc = "awaiting"
    /\ instr' = Catch([instr EXCEPT !.settled =
                               Append(@, [resolved |-> FALSE, response |-> Undefined,
                                          message |-> message])],
                      message)
    /\ UNCHANGED << cache, now, last, probe, modelVars, queueVars, adapter, config, share, resolver >>

NextInstructions ==
    \/ Generate
    \/ \E response \in Responses : Respond(response)
    \/ \E message \in { "rate limit exceeded", "request timed out" } : Reject(message)

SpecInstructions == InitInstructions /\ [][NextInstructions]_vars

\* ------------------------------------------------------------------------
\* Claims about generateInstructions
\* ------------------------------------------------------------------------
\* the call of generateObject just settled in this step
IsSettlementStep == Len(instr'.settled) = Len(instr.settled) + 1

\* the settlement of the last call of generateObject
LastSettlement(g) == g.settled[Len(g.settled)]

\* a response that is a non-empty array with no usable item
SanitizesToNothing(response) ==
    /\ response.t = "array"
    /\ Len(response.kv) > 0
    /\ Len(sanitizeInstructionSuggestions(response)) = 0

\* the temperatures of the calls of generateObject, in the order of the calls
TemperaturesOf(g) == [i \in DOMAIN g.attempts |-> g.attempts[i].temperature]

\* C17: generateInstructions never returns an empty or degraded result: what
\* it returns is a non-empty array of non-empty strings that are no headers,
\* and an invocation that has ended without such an array has thrown an error.
C17_NoDegradedReturn ==
    /\ instr.pc = "returned" =>
          /\ Len(instr.result) > 0
          /\ \A i \in DOMAIN instr.result :
                Len(instr.result[i]) > 0 /\ ~IsHeaderLine(instr.result[i])
    /\ instr.pc = "thrown" => instr.error # ""

\* C18: when generateObject resolves with a non-empty array whose sanitized
\* form has no item, the attempt has failed like one whose validation failed:
\* the failure is logged, the attempt counter goes up by one and, unless the
\* bound is reached, a feedback message is appended and generateObject is
\* called again; nothing is returned.
C18_EmptySanitizedRetried ==
    [][(IsSettlementStep /\ LastSettlement(instr').resolved
          /\ SanitizesToNothing(LastSettlement(instr').response))
       => /\ instr'.pc \in {"awaiting", "thrown"}
          /\ Len(instr'.log) > Len(instr.log)
          /\ instr'.retryCount = instr.retryCount + 1
          /\ instr'.pc = "awaiting" =>
                /\ Len(instr'.messages) = Len(instr.messages) + 1
                /\ Len(instr'.attempts) = Len(instr.attempts) + 1]_vars

\* C19: an invocation whose attempts all fail makes exactly three calls of
\* generateObject, at temperatures 0, 0.3 and 0.6 in this order, and then
\* throws; there is no fourth call.
C19_ThreeAttempts ==
    /\ Len(instr.attempts) <= 3
    /\ instr.pc = "thrown" =>
          TemperaturesOf(instr) = << Zero, Num("0.3"), Num("0.6") >>

\* C20: the call of generateObject of the attempt with index n has the
\* temperature min(0.3 * n, 1.0): the first attempt has 0, the temperature of
\* an attempt is not below that of the attempt before it, and no temperature
\* is above 1.
C20_TemperatureEscalation ==
    /\ AttemptTemperature(0) = Zero
    /\ \A n \in 0..MaxRetryIndex :
          /\ AttemptTemperature(n) =
                (IF NumberLeq(Num(Times03[n + 1]), Num("1")) THEN Num(Times03[n + 1])
                 ELSE Num("1"))
          /\ NumberLeq(AttemptTemperature(n), Num("1"))
          /\ n > 0 => NumberLeq(AttemptTemperature(n - 1), AttemptTemperature(n))
    /\ \A i \in DOMAIN instr.attempts :
          /\ instr.attempts[i].retry = i - 1
          /\ instr.attempts[i].temperature = AttemptTemperature(i - 1)
          /\ NumberLeq(instr.attempts[i].temperature, Num("1"))
          /\ i = 1 => instr.attempts[i].temperature = Zero
          /\ i > 1 => NumberLeq(instr.attempts[i - 1].temperature, instr.attempts[i].temperature)

\* the retries have all been made, each at a temperature above the one before
C20_Witness ==
    /\ instr.pc = "thrown"
    /\ TemperaturesOf(instr) = << Zero, Num("0.3"), Num("0.6"), Num("0.8999999999999999") >>

\* the error an attempt ended with, given how its call of generateObject settled
ErrorOf(settlement) ==
    IF settlement.resolved THEN "No valid instructions generated" ELSE settlement.message

\* the attempt failed: generateObject rejected, or resolved with no array or
\* an empty one
FailedAttempt(settlement) ==
    \/ ~settlement.resolved
    \/ settlement.response.t # "array"
    \/ Len(settlement.response.kv) = 0

\* C21: when generateInstructions throws, every attempt up to the bound has
\* been made and has failed, whether generateObject rejected or its response
\* was not valid, and the error thrown is the error of the last attempt.
C21_LastErrorThrown ==
    instr.pc = "thrown" =>
       /\ Len(instr.settled) = MAX_RETRIES + 1
       /\ Len(instr.attempts) = MAX_RETRIES + 1
       /\ \A i \in DOMAIN instr.settled : FailedAttempt(instr.settled[i])
       /\ instr.error = ErrorOf(LastSettlement(instr))

\* the invocation has thrown the error of its last attempt, which is not the
\* error of its first one, after a rejection and a response that was not valid
C21_Witness ==
    /\ instr.pc = "thrown"
    /\ instr.error = ErrorOf(LastSettlement(instr))
    /\ instr.error # ErrorOf(instr.settled[1])
    /\ \E i, j \in DOMAIN instr.settled : instr.settled[i].resolved /\ ~instr.settled[j].resolved

\* C22: the messages passed to the attempt with index k are the system and
\* the user message of the start followed by k user messages, the j-th with
\* the error text of the j-th failed attempt; after the last failure nothing
\* is appended, and no message is removed or moved.
C22_ErrorFeedback ==
    /\ \A i \in DOMAIN instr.attempts :
          LET messages == instr.attempts[i].messages
          IN  /\ Len(messages) = 2 + (i - 1)
              /\ SubSeq(messages, 1, 2) = instr.attempts[1].messages
              /\ Prop(messages[1], "role") = Str("system")
              /\ Prop(messages[2], "role") = Str("user")
              /\ i - 1 <= Len(instr.settled)
              /\ \A j \in 1..(i - 1) :
                    messages[2 + j] = FeedbackMessage(ErrorOf(instr.settled[j]))
    /\ instr.pc # "new" => instr.messages = instr.attempts[Len(instr.attempts)].messages

\* the last attempt was made with the feedback of three failures, not all
\* with the same error, and has failed too
C22_Witness ==
    /\ instr.pc = "thrown"
    /\ Len(instr.attempts) = 4
    /\ Len(instr.messages) = 5
    /\ instr.messages[3] # instr.messages[4]

\* C23: the attempts of an invocation are made one after the other: a call
\* of generateObject is made only when all calls before it have settled, and
\* at most one call is awaited at any time.
C23_SequentialAttempts ==
    Len(instr.attempts) - Len(instr.settled) = (IF instr.pc = "awaiting" THEN 1 ELSE 0)

\* the third call is awaited and the two before it have settled
C23_Witness ==
    /\ instr.pc = "awaiting"
    /\ Len(instr.attempts) = 3
    /\ Len(instr.settled) = 2

\* the list of the example
ExampleSuggestions ==
    << Text(<< "1", ".", " ", "D", "o", " ", "X" >>),
       Text(<< "-", " ", "D", "o", " ", "Y" >>),
       Text(<< "\"", "D", "o", " ", "Z", "\"" >>),
       Text(<< "*", "*", "H", "e", "a", "d", "e", "r", "*", "*" >>) >>

\* C24: sanitizeInstructionSuggestions takes numbering, bullets and wrapping
\* quotes away and drops header lines: the list "1. Do X", "- Do Y",
\* "\"Do Z\"", "**Header**" gives the list Do X, Do Y, Do Z, which is then what
\* generateInstructions returns for it.
C24_SanitizerExample ==
    /\ sanitizeInstructionSuggestions(Arr(ExampleSuggestions)) =
          << << "D", "o", " ", "X" >>, << "D", "o", " ", "Y" >>, << "D", "o", " ", "Z" >> >>
    /\ (instr.pc = "returned" /\ LastSettlement(instr).response = Arr(ExampleSuggestions))
          => instr.result = << << "D", "o", " ", "X" >>, << "D", "o", " ", "Y" >>, << "D", "o", " ", "Z" >> >>

\* the step is the return of the second of two calls generateText(M, 0) that
\* overlapped: both were dispatched, the other one returned in the step
\* before, while this one was awaited
SecondOverlappingReturn ==
    /\ calls = 2 /\ Len(inflight) = 1
    /\ event.kind = "return" /\ event.op = "text" /\ event.temperature = Zero
    /\ inflight[1].op = "text" /\ inflight[1].temperature = Zero
    /\ inflight[1].messages = event.messages
    /\ inflight' = << >>
    /\ event'.kind = "return"

\* C35: when two calls generateText(M, 0) on one provider instance overlap,
\* both miss and both go to the backend, and when both have succeeded the
\* text cache, enabled, holds one entry for (M, 0), which is the only entry it
\* has gained, and its value is the response of the call that settled last.
C35_OverlappingCalls ==
    [][(SecondOverlappingReturn /\ textCache.enabled) =>
          LET key == Key(event.messages, Zero, Undefined)
          IN  /\ Cardinality({i \in DOMAIN textCache'.cache : textCache'.cache[i].key = key}) = 1
              /\ MapGet(textCache'.cache, key).value = event'.result
              /\ Len(textCache'.cache) = 1]_vars

\* ------------------------------------------------------------------------
\* Responses as objects: the text cache of a provider stores references, and
\* the callers hold the references the calls return
\* ------------------------------------------------------------------------
\* a reference to the n-th object of the heap
Ref(n) == [t |-> "ref", s |-> "", kv |-> << n >>]

InitShare ==
    /\ share = [NoShare EXCEPT !.c = ProviderCache(Env("openai", Absent, Absent, Absent))]
    /\ now = 0
    /\ cache = NewCache(Absent, Absent, Absent)
    /\ last = NoCall
    /\ probe = NoProbe
    /\ IdleModel

\* generateText(messages, 0) up to its await: return cached on a hit, which is
\* entry.value, the object that was stored
ShareCall(messages) ==
    LET look == Lookup(share.c, messages, Zero, Undefined, now)
    IN  /\ Len(share.held) + Len(share.pending) <= MaxCalls
        /\ share' =
              IF ~Falsy(look.ret)
              THEN [share EXCEPT !.c = look.c,
                                 !.held = Append(@, look.ret),
                                 !.hits = Append(@, [ref |-> look.ret,
                                                     value |-> share.heap[look.ret.kv[1]]])]
              ELSE [share EXCEPT !.c = look.c, !.pending = Append(@, messages)]
        /\ UNCHANGED << cache, now, last, probe, modelVars, queueVars, instr, adapter, config, resolver >>

\* the backend answers call i: const response = { response, messages }, then
\* this.textCache.set(messages, temperature, response) and return response,
\* the same object
ShareReply(i, text) ==
    LET messages == share.pending[i]
        response == Response(messages, Str(text), text)
        ref == Ref(Len(share.heap) + 1)
    IN  /\ share' = [share EXCEPT
                        !.heap = Append(@, response),
                        !.made = Append(@, response),
                        !.c = Store(@, messages, Zero, ref, Undefined, now).c,
                        !.pending = Remove(@, i),
                        !.held = Append(@, ref)]
        /\ UNCHANGED << cache, now, last, probe, modelVars, queueVars, instr, adapter, config, resolver >>

\* a caller appends a message to the messages of a response it was given:
\* result.messages.push(...)
CallerPush(k) ==
    LET n == share.held[k].kv[1]
        history == Prop(share.heap[n], "messages")
    IN  /\ share.heap[n] = share.made[n]
        /\ share' = [share EXCEPT
                        !.heap[n] = SetProp(@, "messages",
                                            Arr(Append(history.kv, Message("user", "more"))))]
        /\ UNCHANGED << cache, now, last, probe, modelVars, queueVars, instr, adapter, config, resolver >>

NextShare ==
    \/ \E messages \in ProviderMessages : ShareCall(messages)
    \/ \E i \in DOMAIN share.pending, text \in TextReplies : ShareReply(i, text)
    \/ \E k \in DOMAIN share.held : CallerPush(k)

SpecShare == InitShare /\ [][NextShare]_vars

\* C36: the response a provider returns is not the stored entry itself, so
\* whatever a caller does to a response it was given, a later cache hit for
\* the same request returns the response as it was stored.
C36_EntriesNotShared ==
    \A k \in DOMAIN share.hits :
        share.hits[k].value = share.made[share.hits[k].ref.kv[1]]

\* ------------------------------------------------------------------------
\* Integrations: needsDocFetch, upsertIntegrationResolver and its
\* documentation task. A string is the list of its characters.
\* ------------------------------------------------------------------------
\* undefined and null where a string may stand, a Date
UndefinedText == [t |-> "undefined", s |-> << >>, kv |-> << >>]
NullText == [t |-> "null", s |-> << >>, kv |-> << >>]
Date(n) == [t |-> "date", s |-> << n >>, kv |-> << >>]

\* x && x.trim()
TrimmedTruthy(x) == x.t = "string" /\ x.s # << >> /\ Trim(x.s) # << >>

\* a === b for strings, undefined and null
StrictEquals(a, b) == a.t = b.t /\ a.s = b.s

\* resolveField(newValue, oldValue, defaultValue)
resolveField(newValue, oldValue, defaultValue) ==
    IF newValue.t = "null" THEN UndefinedText
    ELSE IF newValue.t # "undefined" THEN newValue
    ELSE IF oldValue.t # "undefined" THEN oldValue
    ELSE defaultValue

\* (variant of needsDocFetch: without the detection of a manual refresh)
needsDocFetch_NoRefresh(input, oldIntegration) ==
    IF input.documentationPending = True THEN [line |-> 15, value |-> TRUE]
    ELSE IF TrimmedTruthy(input.documentation) /\ Falsy(input.documentationPending)
    THEN [line |-> 18, value |-> FALSE]
    ELSE IF ~TrimmedTruthy(input.documentationUrl) THEN [line |-> 21, value |-> FALSE]
    ELSE IF oldIntegration = << >> THEN [line |-> 27, value |-> TRUE]
    ELSE LET old == oldIntegration[1]
         IN  IF ~StrictEquals(input.urlHost, old.urlHost) THEN [line |-> 28, value |-> TRUE]
             ELSE IF ~StrictEquals(input.urlPath, old.urlPath) THEN [line |-> 29, value |-> TRUE]
             ELSE IF ~StrictEquals(input.documentationUrl, old.documentationUrl)
             THEN [line |-> 30, value |-> TRUE]
             ELSE [line |-> 39, value |-> FALSE]

\* needsDocFetch(input, oldIntegration), oldIntegration being << >> when there
\* is none: the value returned and the line of the return statement taken
needsDocFetch(input, oldIntegration) ==
    IF input.documentationPending = True THEN [line |-> 15, value |-> TRUE]
    ELSE IF TrimmedTruthy(input.documentation) /\ Falsy(input.documentationPending)
    THEN [line |-> 18, value |-> FALSE]
    ELSE IF ~TrimmedTruthy(input.documentationUrl) THEN [line |-> 21, value |-> FALSE]
    ELSE IF oldIntegration = << >> THEN [line |-> 27, value |-> TRUE]
    ELSE LET old == oldIntegration[1]
         IN  IF ~StrictEquals(input.urlHost, old.urlHost) THEN [line |-> 28, value |-> TRUE]
             ELSE IF ~StrictEquals(input.urlPath, old.urlPath) THEN [line |-> 29, value |-> TRUE]
             ELSE IF ~StrictEquals(input.documentationUrl, old.documentationUrl)
             THEN [line |-> 30, value |-> TRUE]
             ELSE IF /\ StrictEquals(input.documentationUrl, old.documentationUrl)
                     /\ ~TrimmedTruthy(input.documentation)
                     /\ TrimmedTruthy(old.documentationUrl)
             THEN [line |-> 36, value |-> TRUE]
             ELSE [line |-> 39, value |-> FALSE]

\* an Integration
Integration(id, name, urlHost, urlPath, documentationUrl, documentation, documentationPending,
            createdAt, updatedAt) ==
    [ id |-> id, name |-> name, urlHost |-> urlHost, urlPath |-> urlPath,
      documentationUrl |-> documentationUrl, documentation |-> documentation,
      documentationPending |-> documentationPending,
      createdAt |-> createdAt, updatedAt |-> updatedAt ]

\* the inputs of upsertIntegrationResolver
IntegrationInputs ==
    { Integration(Text(<< "i" >>), UndefinedText, urlHost, urlPath, documentationUrl,
                  documentation, documentationPending, UndefinedText, UndefinedText) :
        urlHost \in { Text(<< "h" >>), Text(<< "g" >>) },
        urlPath \in { Text(<< "p" >>), UndefinedText },
        documentationUrl \in { UndefinedText, Text(<< " " >>), Text(<< "u" >>), Text(<< "v" >>) },
        documentation \in { UndefinedText, NullText, Text(<< " ", "\n" >>), Text(<< "d" >>) },
        documentationPending \in { Undefined, True, False } }
    \cup { Integration(Text(<< >>), UndefinedText, Text(<< "h" >>), Text(<< "p" >>),
                       Text(<< "u" >>), UndefinedText, Undefined, UndefinedText, UndefinedText) }

\* what the datastore holds under the id before the call: nothing, or one of
\* these
StoredIntegrations ==
    { Integration(Text(<< "i" >>), Text(<< "n" >>), Text(<< "h" >>), Text(<< "p" >>),
                  documentationUrl, documentation, documentationPending, Date(0), Date(0)) :
        documentationUrl \in { Text(<< "u" >>), Text(<< >>) },
        documentation \in { Text(<< "d" >>) },
        documentationPending \in { False, True } }

\* The datastore is outside the code at hand: getIntegration answers with what
\* is stored under the id, upsertIntegration replaces it and deleteIntegration
\* removes it. A call takes effect at the moment it is answered, and calls
\* that are under way at the same time are answered in any order.
getIntegration(store) == store
upsertIntegration(store, integration) == << integration >>
deleteIntegration(store) == << >>

InitIntegrations ==
    /\ resolver \in { [NoResolver EXCEPT !.store = st] :
                        st \in { << >> } \cup { << i >> : i \in StoredIntegrations } }
    /\ now = 0
    /\ cache = NewCache(Absent, Absent, Absent)
    /\ last = NoCall
    /\ probe = NoProbe
    /\ env = NoEnv
    /\ textCache = ProviderCache(NoEnv)
    /\ objectCache = ProviderCache(NoEnv)
    /\ inflight = <<>>
    /\ event = NoEvent
    /\ calls = 0
    /\ IdleQueue
    /\ instr = NoInvocation
    /\ adapter = NoAdapter
    /\ config = NoConfig
    /\ share = NoShare

\* time passes while the resolver or its task awaits
IntegrationTick ==
    /\ resolver.pc # "new"
    /\ now < MaxTime
    /\ now' = now + 1
    /\ UNCHANGED << cache, last, probe, modelVars, queueVars, instr, adapter, config, share, resolver >>

\* upsertIntegrationResolver(_, { input }, context) up to its first await
upsertIntegrationResolver(input) ==
    /\ resolver.pc = "new"
    /\ resolver' =
          IF input.id.s = << >>
          THEN [resolver EXCEPT !.pc = "threw", !.input = << input >>]
          ELSE [resolver EXCEPT !.pc = "getOld", !.input = << input >>, !.at = now]
    /\ UNCHANGED << cache, now, last, probe, modelVars, queueVars, instr, adapter, config, share >>

\* getIntegration has answered (or failed): needsDocFetch, the documentation
\* task started and run up to its await of fetchAndProcess, the record built
\* and upsertIntegration called
GotOldIntegration(ok) ==
    LET input == resolver.input[1]
        oldIntegration == getIntegration(resolver.store)
        \* oldIntegration?.x
        old == IF oldIntegration = << >>
               THEN Integration(UndefinedText, UndefinedText, UndefinedText, UndefinedText,
                                UndefinedText, UndefinedText, Undefined, UndefinedText,
                                UndefinedText)
               ELSE oldIntegration[1]
        decision == needsDocFetch(input, oldIntegration)
        integration ==
            Integration(input.id,
                        resolveField(input.name, old.name, Text(<< >>)),
                        resolveField(input.urlHost, old.urlHost, Text(<< >>)),
                        resolveField(input.urlPath, old.urlPath, Text(<< >>)),
                        resolveField(input.documentationUrl, old.documentationUrl, Text(<< >>)),
                        resolveField(input.documentation, old.documentation, Text(<< >>)),
                        IF decision.value THEN True ELSE False,
                        IF old.createdAt.t = "date" THEN old.createdAt ELSE Date(resolver.at),
                        Date(resolver.at))
    IN  /\ resolver.pc = "getOld"
        /\ resolver' =
              IF ~ok
              THEN [resolver EXCEPT !.pc = "threw", !.failed = TRUE]
              ELSE [resolver EXCEPT
                      !.pc = "upserting",
                      !.old = oldIntegration,
                      !.line = decision.line,
                      !.shouldFetchDoc = decision.value,
                      !.integration = << integration >>,
                      !.task.pc = IF decision.value THEN "fetching" ELSE "none",
                      !.task.path = IF decision.value THEN "try" ELSE ""]
        /\ UNCHANGED << cache, now, last, probe, modelVars, queueVars, instr, adapter, config, share >>

\* the upsert of the resolver has been answered: return, or throw
Upserted(ok) ==
    /\ resolver.pc = "upserting"
    /\ resolver' =
          IF ok
          THEN [resolver EXCEPT !.pc = "returned",
                                !.store = upsertIntegration(@, resolver.integration[1])]
          ELSE [resolver EXCEPT !.pc = "threw", !.failed = TRUE]
    /\ UNCHANGED << cache, now, last, probe, modelVars, queueVars, instr, adapter, config, share >>

\* fetchAndProcess has settled: with the documentation, and the task asks
\* whether the integration still exists, or with an error, and the catch asks
\* the same
Fetched(outcome) ==
    /\ resolver.task.pc = "fetching"
    /\ resolver' =
          IF outcome = "resolve"
          THEN [resolver EXCEPT !.task.pc = "checking", !.task.docString = << Text(<< "D" >>) >>]
          ELSE [resolver EXCEPT !.task.pc = "checking", !.task.path = "catch"]
    /\ UNCHANGED << cache, now, last, probe, modelVars, queueVars, instr, adapter, config, share >>

\* the getIntegration of the task has been answered: nothing stored, and the
\* task ends; or upsertIntegration is called with { ...input, documentation,
\* documentationPending: false, createdAt, updatedAt } (in the catch without
\* documentation). An error in the try leads to the catch, one in the catch
\* is logged.
StillExists(ok) ==
    LET input == resolver.input[1]
        stillExists == getIntegration(resolver.store)
        write == [input EXCEPT
                    !.documentation = IF resolver.task.path = "try"
                                      THEN resolver.task.docString[1] ELSE @,
                    !.documentationPending = False,
                    !.createdAt = IF resolver.old # << >> /\ resolver.old[1].createdAt.t = "date"
                                  THEN resolver.old[1].createdAt ELSE Date(resolver.at),
                    !.updatedAt = Date(now)]
    IN  /\ resolver.task.pc = "checking"
        /\ resolver' =
              IF ~ok
              THEN IF resolver.task.path = "try"
                   THEN [resolver EXCEPT !.task.path = "catch", !.failed = TRUE]
                   ELSE [resolver EXCEPT !.task.pc = "done", !.failed = TRUE]
              ELSE IF stillExists = << >>
              THEN [resolver EXCEPT !.task.pc = "done"]
              ELSE [resolver EXCEPT !.task.pc = "writing", !.task.write = << write >>]
        /\ UNCHANGED << cache, now, last, probe, modelVars, queueVars, instr, adapter, config, share >>

\* the upsert of the task has been answered
TaskUpserted(ok) ==
    /\ resolver.task.pc = "writing"
    /\ resolver' =
          IF ok
          THEN [resolver EXCEPT !.task.pc = "done",
                                !.store = upsertIntegration(@, resolver.task.write[1])]
          ELSE IF resolver.task.path = "try"
          THEN [resolver EXCEPT !.task.pc = "checking", !.task.path = "catch", !.failed = TRUE]
          ELSE [resolver EXCEPT !.task.pc = "done", !.failed = TRUE]
    /\ UNCHANGED << cache, now, last, probe, modelVars, queueVars, instr, adapter, config, share >>

\* deleteIntegrationResolver(_, { id }, context), called by someone else
deleteIntegrationResolver ==
    /\ resolver.pc # "new"
    /\ ~resolver.deleted
    /\ resolver' = [resolver EXCEPT !.store = deleteIntegration(@), !.deleted = TRUE]
    /\ UNCHANGED << cache, now, last, probe, modelVars, queueVars, instr, adapter, config, share >>

NextIntegrations ==
    \/ IntegrationTick
    \/ \E input \in IntegrationInputs : upsertIntegrationResolver(input)
    \/ \E ok \in BOOLEAN : GotOldIntegration(ok)
    \/ \E ok \in BOOLEAN : Upserted(ok)
    \/ \E outcome \in { "resolve", "reject" } : Fetched(outcome)
    \/ \E ok \in BOOLEAN : StillExists(ok)
    \/ \E ok \in BOOLEAN : TaskUpserted(ok)
    \/ deleteIntegrationResolver

SpecIntegrations == InitIntegrations /\ [][NextIntegrations]_vars

\* C38: after upsertIntegrationResolver has run with needsDocFetch true, once
\* its own upsert and its documentation task have both completed, in either
\* order and whether the fetch succeeded or failed, the stored integration,
\* if there is one, has documentationPending = false. (No call to the
\* datastore has failed.)
C38_PendingSettled ==
    (/\ resolver.pc = "returned"
     /\ resolver.shouldFetchDoc
     /\ resolver.task.pc = "done"
     /\ ~resolver.failed
     /\ resolver.store # << >>)
        => resolver.store[1].documentationPending = False

\* x is a string with a character that is not white space
NonBlank(x) == x.t = "string" /\ \E i \in DOMAIN x.s : ~IsSpace(x.s[i])

\* C39: needsDocFetch returns true whenever input.documentationPending is
\* true; otherwise false whenever the input has non-blank documentation or no
\* non-blank documentationUrl; and true in every remaining case, whatever the
\* old integration, so that its last return statement is never reached.
C39_NeedsDocFetch ==
    resolver.pc \in { "upserting", "returned" } =>
        LET input == resolver.input[1]
        IN  /\ resolver.shouldFetchDoc =
                  IF input.documentationPending = True THEN TRUE
                  ELSE IF NonBlank(input.documentation) \/ ~NonBlank(input.documentationUrl)
                  THEN FALSE
                  ELSE TRUE
            /\ resolver.line # 39
            /\ resolver.integration[1].documentationPending =
                  IF resolver.shouldFetchDoc THEN True ELSE False

\* the input names the URL the stored integration has, host and path are the
\* same and there is no documentation in it: a manual refresh
C39_Witness ==
    /\ resolver.pc = "upserting"
    /\ resolver.old # << >>
    /\ resolver.line = 36
    /\ resolver.shouldFetchDoc
    /\ resolver.input[1].documentationPending = False
    /\ resolver.input[1].documentationUrl = resolver.old[1].documentationUrl
    /\ resolver.task.pc = "fetching"

\* ------------------------------------------------------------------------
\* A cache built from options, or by the constructor of a provider from
\* process.env, and then used
\* ------------------------------------------------------------------------
InitConfig ==
    /\ config = NoConfig
    /\ now = 0
    /\ cache = NewCache(Absent, Absent, Absent)
    /\ last = NoCall
    /\ probe = NoProbe
    /\ IdleModel

\* new LLMResponseCache({ maxAge, maxSize }), or new OpenAIModel() with
\* LLM_CACHE_TTL and LLM_CACHE_SIZE set to the digits of the numbers
Construct(via, maxAge, maxSize) ==
    /\ config.stage = "new"
    /\ config' =
          [ stage |-> "built", via |-> via, maxAge |-> maxAge, maxSize |-> maxSize,
            c |-> IF via = "options"
                  THEN NewCache(maxAge, maxSize, Absent)
                  ELSE ProviderCache([NoEnv EXCEPT !.provider = "openai",
                                                   !.LLM_CACHE_TTL = maxAge,
                                                   !.LLM_CACHE_SIZE = maxSize]),
            ret |-> Undefined ]
    /\ UNCHANGED << cache, now, last, probe, modelVars, queueVars, instr, adapter, share, resolver >>

ConfigTick ==
    /\ config.stage # "new"
    /\ now < MaxTime
    /\ now' = now + 1
    /\ UNCHANGED << cache, last, probe, modelVars, queueVars, instr, adapter, config, share, resolver >>

ConfigSet(r, v) ==
    /\ config.stage # "new"
    /\ config' = [config EXCEPT !.stage = "set",
                                !.c = CacheSet(@, r.messages, r.temperature, v, r.schema, now)]
    /\ UNCHANGED << cache, now, last, probe, modelVars, queueVars, instr, adapter, share, resolver >>

ConfigGet(r) ==
    LET got == CacheGet(config.c, r.messages, r.temperature, r.schema, now)
    IN  /\ config.stage # "new"
        /\ config' = [config EXCEPT !.stage = "get", !.c = got.c, !.ret = got.ret]
        /\ UNCHANGED << cache, now, last, probe, modelVars, queueVars, instr, adapter, share, resolver >>

NextConfig ==
    \/ \E via \in { "options", "env" }, a \in AgeOptions, s \in SizeOptions : Construct(via, a, s)
    \/ ConfigTick
    \/ \E r \in CacheRequests, v \in CacheValues : ConfigSet(r, v)
    \/ \E r \in CacheRequests : ConfigGet(r)

SpecConfig == InitConfig /\ [][NextConfig]_vars

\* C37: a cache built with maxAge = a and maxSize = s uses exactly a and s as
\* its expiry age and its size bound, for every a >= 0 and s >= 0: with a = 0
\* an entry read later than it was stored has expired, and with s = 0 the
\* bound is 0. The defaults of one hour and 1000 entries apply only when the
\* option is absent.
C37_ConfiguredBounds ==
    config.stage # "new" =>
        /\ config.c.maxAge = IF config.maxAge = Absent THEN DefaultMaxAge ELSE config.maxAge[1]
        /\ config.c.maxSize = IF config.maxSize = Absent THEN DefaultMaxSize ELSE config.maxSize[1]
        /\ config.maxAge = Given(0) =>
              \A r \in CacheRequests :
                  (/\ MapHas(config.c.cache, KeyOf(r))
                   /\ MapGet(config.c.cache, KeyOf(r)).timestamp < now)
                      => CacheGet(config.c, r.messages, r.temperature, r.schema, now).ret
                            = Undefined

\* C40: sanitizeInstructionSuggestions is idempotent on lists of strings: the
\* list it returns is returned unchanged when it is sanitized again, so no
\* entry still carries a bullet, a number or a quote that a second pass would
\* strip, and every entry is non-empty and has no line break in it.
C40_SanitizerIdempotent ==
    instr.pc = "returned" =>
        LET out == instr.result
        IN  /\ sanitizeInstructionSuggestions(Arr([i \in DOMAIN out |-> Text(out[i])])) = out
            /\ \A i \in DOMAIN out :
                  /\ out[i] # << >>
                  /\ \A j \in DOMAIN out[i] : out[i][j] \notin { "\n", "\r" }

\* What the last call looked up or stored, and how old that entry was
LastKey == KeyOf(last.req)
LastStored == MapHas(last.before, LastKey)
LastAge == last.t - MapGet(last.before, LastKey).timestamp

\* What get would return for request r at time t with the entries m
WouldGet(m, r, t) ==
    CacheGet([cache EXCEPT !.cache = m], r.messages, r.temperature, r.schema, t).ret

\* C4: on an enabled cache, once set(M, 0, V, S) has returned and no other call
\* has been made, get(M, 0, S) returns V as long as at most maxAge has elapsed.
C4_RoundTrip ==
    (last.op = "set" /\ cache.enabled /\ now - last.t <= cache.maxAge)
        => WouldGet(cache.cache, last.req, now) = last.value

\* the round trip at the limit of maxAge, with a schema, on a cache that held
\* another value for the key
C4_Witness ==
    /\ last.op = "set" /\ cache.enabled
    /\ now - last.t = cache.maxAge
    /\ last.req.schema # Undefined
    /\ LastStored /\ MapGet(last.before, LastKey).value # last.value
    /\ WouldGet(cache.cache, last.req, now) = last.value

\* C5: on an enabled cache with maxSize >= 1, whenever a set has returned the
\* cache holds at most maxSize entries.
C5_SizeBound ==
    (cache.enabled /\ cache.maxSize >= 1 /\ last.op = "set")
        => CacheSize(cache) <= cache.maxSize

\* a set that overwrote a key of a full cache
C5_Witness ==
    /\ last.op = "set" /\ cache.enabled
    /\ Len(last.before) = cache.maxSize
    /\ LastStored
    /\ CacheSize(cache) <= cache.maxSize

\* the entries of m other than the one under key
Others(m, key) == {m[i] : i \in {j \in DOMAIN m : m[j].key # key}}

\* C6: a set of a key not yet stored into a cache holding maxSize entries
\* removes exactly one entry, one of minimal timestamp, and every other entry
\* stays as it was and is retrieved as before; a set into a cache holding
\* fewer than maxSize entries removes nothing.
C6_OldestFirstEviction ==
    (last.op = "set" /\ cache.enabled) =>
        LET before == Range(last.before)
            after == Others(cache.cache, LastKey)
            kept(gone) ==
                /\ after = Others(last.before, LastKey) \ gone
                /\ \A r \in CacheRequests :
                      (KeyOf(r) # LastKey /\ KeyOf(r) \notin {e.key : e \in gone})
                          => WouldGet(cache.cache, r, last.t) = WouldGet(last.before, r, last.t)
        IN  /\ (~LastStored /\ Len(last.before) = cache.maxSize) =>
                \E e \in before :
                    /\ \A f \in before : e.timestamp <= f.timestamp
                    /\ ~MapHas(cache.cache, e.key)
                    /\ kept({e})
                    /\ CacheSize(cache) = cache.maxSize
            /\ Len(last.before) < cache.maxSize =>
                /\ kept({})
                /\ \A e \in before : MapHas(cache.cache, e.key)

\* maxSize = 2 and k1, k2, k3 set at increasing times: k1 is gone, k2 and k3
\* are retrieved
C6_Witness ==
    /\ cache.enabled /\ cache.maxSize = 2
    /\ last.op = "set" /\ last.req = Request(messages1, Zero, schema1)
    /\ Len(last.before) = 2
    /\ last.before[1].key = Key(messages1, Zero, Undefined)
    /\ last.before[2].key = Key(messages2, Zero, Undefined)
    /\ last.before[1].timestamp < last.before[2].timestamp
    /\ last.before[2].timestamp < last.t
    /\ WouldGet(cache.cache, Request(messages1, Zero, Undefined), now) = Undefined
    /\ WouldGet(cache.cache, Request(messages2, Zero, Undefined), now) = last.before[2].value
    /\ WouldGet(cache.cache, Request(messages1, Zero, schema1), now) = last.value

\* C7: a get of an entry older than maxAge misses and deletes the entry, so
\* size drops by one and the key misses from then on; a get of an entry of age
\* at most maxAge returns the stored value.
C7_LazyExpiry ==
    (last.op = "get" /\ cache.enabled /\ LastStored) =>
        IF LastAge > cache.maxAge
        THEN /\ last.ret = Undefined
             /\ ~MapHas(cache.cache, LastKey)
             /\ CacheSize(cache) = Len(last.before) - 1
             /\ \A t \in last.t..MaxTime : WouldGet(cache.cache, last.req, t) = Undefined
        ELSE /\ last.ret = MapGet(last.before, LastKey).value
             /\ cache.cache = last.before

\* a get that found its entry expired, and one that found it at age maxAge
C7_Witness ==
    /\ last.op = "get" /\ cache.enabled /\ LastStored
    /\ LastAge = cache.maxAge + 1
    /\ Len(last.before) = 2

\* C10: a cache constructed with enabled = false holds nothing and every get
\* of it misses, whatever calls were made.
C10_DisabledCache ==
    ~cache.enabled =>
        /\ CacheSize(cache) = 0
        /\ last.op = "get" => last.ret = Undefined
        /\ \A r \in CacheRequests : WouldGet(cache.cache, r, now) = Undefined

\* a set on a disabled cache has returned
C10_Witness ==
    /\ ~cache.enabled
    /\ last.op = "set"
    /\ WouldGet(cache.cache, last.req, now) = Undefined

\* C33: a set of a key that is already stored, into a cache holding maxSize
\* entries, still evicts an entry of minimal timestamp before it writes. When
\* that entry belongs to another key it is gone afterwards and the cache
\* holds maxSize - 1 entries; the entry of the key that was set holds the new
\* value and the time of the call, and the remaining entries are as before.
C33_OverwriteAtCapacity ==
    (last.op = "set" /\ cache.enabled /\ LastStored /\ Len(last.before) = cache.maxSize) =>
        /\ MapGet(cache.cache, LastKey) =
              [key |-> LastKey, timestamp |-> last.t, value |-> last.value]
        /\ \E e \in Range(last.before) :
              /\ \A f \in Range(last.before) : e.timestamp <= f.timestamp
              /\ Others(cache.cache, LastKey) = Others(last.before, LastKey) \ {e}
              /\ IF e.key # LastKey
                 THEN ~MapHas(cache.cache, e.key) /\ CacheSize(cache) = cache.maxSize - 1
                 ELSE CacheSize(cache) = cache.maxSize

\* maxSize = 2, k1 stored before k2, and k2 set again: k1 is gone and one
\* entry is left
C33_Witness ==
    /\ last.op = "set" /\ cache.enabled /\ cache.maxSize = 2
    /\ Len(last.before) = 2
    /\ last.before[2].key = LastKey
    /\ last.before[1].timestamp < last.before[2].timestamp
    /\ last.before[2].timestamp < last.t
    /\ CacheSize(cache) = 1
    /\ cache.cache[1] = [key |-> LastKey, timestamp |-> last.t, value |-> last.value]

\* C34: a get adds no entry and changes no stored value or timestamp; all it
\* can do to the entries is delete the one it looked up, when that one has
\* expired. A hit therefore leaves the age of its entry as it was, and the
\* entry a later set evicts is the same whether or not entries were read.
C34_GetFrame ==
    last.op = "get" =>
        /\ \/ cache.cache = last.before
           \/ /\ LastStored /\ LastAge > cache.maxAge
              /\ cache.cache = MapDelete(last.before, LastKey)
        /\ (cache.cache # << >> /\ last.before # << >> /\ ~(LastStored /\ LastAge > cache.maxAge))
              => EvictOldest(cache.cache) = EvictOldest(last.before)

\* a hit on the older of two entries, some time after it was stored
C34_Witness ==
    /\ last.op = "get" /\ cache.enabled
    /\ Len(last.before) = 2
    /\ last.before[1].key = LastKey
    /\ last.before[1].timestamp < last.before[2].timestamp
    /\ last.before[2].timestamp < last.t
    /\ last.ret = last.before[1].value
    /\ cache.cache = last.before

\* the keys stored in the entries m
StoredKeys(m) == {m[i].key : i \in DOMAIN m}

\* C11: clear() removes every entry, whether the cache is enabled or not: when
\* it has returned size is 0 and get misses for every request, now and at any
\* later time; and a key comes to be stored only by a set of that key, so the
\* misses last until the key is set again.
C11_ClearEmpties ==
    /\ [](last.op = "clear" =>
            /\ CacheSize(cache) = 0
            /\ \A r \in CacheRequests, t \in now..MaxTime :
                  WouldGet(cache.cache, r, t) = Undefined)
    /\ [][\A k \in StoredKeys(cache'.cache) \ StoredKeys(cache.cache) :
            last'.op = "set" /\ KeyOf(last'.req) = k]_vars

\* clear() has returned on a cache that held two entries
C11_Witness ==
    /\ last.op = "clear"
    /\ Len(last.before) = 2
    /\ CacheSize(cache) = 0

\* a and b are the same value but for the order of the keys of their objects
RECURSIVE SameUpToKeyOrder(_, _)
SameUpToKeyOrder(a, b) ==
    IF a.t # b.t THEN FALSE
    ELSE IF a.t = "object"
    THEN /\ Range(ObjectKeys(a)) = Range(ObjectKeys(b))
         /\ \A k \in Range(ObjectKeys(a)) : SameUpToKeyOrder(Prop(a, k), Prop(b, k))
    ELSE IF a.t = "array"
    THEN /\ Len(a.kv) = Len(b.kv)
         /\ \A i \in DOMAIN a.kv : SameUpToKeyOrder(a.kv[i], b.kv[i])
    ELSE a = b

ProbeHit == probe.keyA = probe.keyB /\ probe.ret = ProbeValue
ProbeMiss == probe.keyA # probe.keyB /\ probe.ret = Undefined

\* C8: for the same messages and temperature, two schemas that are the same
\* but for the order of their keys, at every level, have one cache key (a set
\* with one is hit by a get with the other); two schemas that differ in a key
\* or a value, or a schema and no schema, have different keys (a miss).
C8_SchemaKey ==
    (probe.stage = "get" /\ probe.a.messages = probe.b.messages
                         /\ probe.a.temperature = probe.b.temperature) =>
        IF SameUpToKeyOrder(probe.a.schema, probe.b.schema) THEN ProbeHit ELSE ProbeMiss

\* set with schema1, hit with schema2, whose keys are in another order at both
\* levels
C8_Witness ==
    /\ probe.stage = "get"
    /\ probe.a.messages = probe.b.messages /\ probe.a.temperature = probe.b.temperature
    /\ probe.a.schema = schema1 /\ probe.b.schema = schema2
    /\ ProbeHit

\* the (role, content) pairs of a list of messages
RoleContent(messages) ==
    [i \in DOMAIN messages |-> << Prop(messages[i], "role"), Prop(messages[i], "content") >>]

\* C9: with one schema, two requests have the same key exactly when their
\* messages have the same (role, content) pairs in the same order and their
\* temperatures are equal: other fields of a message and the order of its
\* fields do not count; a role, a content, the number or the order of the
\* messages, and the temperature do.
C9_MessageKey ==
    (probe.stage = "get" /\ SameUpToKeyOrder(probe.a.schema, probe.b.schema)) =>
        IF /\ RoleContent(probe.a.messages) = RoleContent(probe.b.messages)
           /\ probe.a.temperature = probe.b.temperature
        THEN ProbeHit
        ELSE ProbeMiss

\* set with {role, content}, hit with the message that also has a name
C9_Witness ==
    /\ probe.stage = "get"
    /\ probe.a.messages = << msgHi >> /\ probe.b.messages = << msgHiNamed >>
    /\ probe.a.temperature = probe.b.temperature /\ probe.a.schema = probe.b.schema
    /\ ProbeHit

\* the step is the start of a call: its lookup, and the hit or the dispatch
IsCallStart == calls' = calls + 1

\* the step ends a call with an error raised to its caller
IsThrow == Len(inflight') < Len(inflight) /\ event'.kind = "throw"

\* c2 is c, or c less the entry of the event's request, which had expired
ExpiredDropped(c, c2, e) ==
    LET key == Key(e.messages, e.temperature, e.schema)
    IN  \/ c2 = c
        \/ /\ MapHas(c.cache, key)
           /\ now - MapGet(c.cache, key).timestamp > c.maxAge
           /\ c2 = [c EXCEPT !.cache = MapDelete(@, key)]

\* the reply kept in the history of a structured call that has returned is
\* one that could be parsed
ReturnedParsed ==
    (event.kind = "return" /\ event.op = "object") =>
        LET history == Prop(event.result, "messages").kv
        IN  JSONParse(Prop(history[Len(history)], "content").s).ok

\* C30 as stated: a call of generateText or generateObject whose backend call
\* fails, or whose reply cannot be parsed, raises an error, returns no value
\* and has changed neither cache: both are as they were before the call.
C30_FailureLeavesCaches ==
    /\ event.kind = "throw" =>
          /\ event.result = Undefined
          /\ ~event.wrote
          /\ ~event.dropped
    /\ ReturnedParsed

\* C30 as amended: such a call raises an error, returns no value and stores
\* nothing. The step in which it fails leaves both caches as they are, and the
\* one change the call can have made to a cache is that of its lookup at
\* temperature 0: the deletion of the entry of its own request, expired.
C30_FailureStoresNothing ==
    /\ [](event.kind = "throw" => event.result = Undefined /\ ~event.wrote)
    /\ []ReturnedParsed
    /\ [][IsThrow => UNCHANGED << textCache, objectCache >>]_vars
    /\ [][IsCallStart =>
            /\ event'.dropped = (<< textCache, objectCache >>' # << textCache, objectCache >>)
            /\ event'.dropped => event'.temperature = Zero
            /\ IF event'.op = "text"
               THEN ExpiredDropped(textCache, textCache', event') /\ UNCHANGED objectCache
               ELSE ExpiredDropped(objectCache, objectCache', event') /\ UNCHANGED textCache]_vars

\* a call whose lookup has deleted an expired entry has failed, with the
\* cache enabled and nothing stored by it
C30_Witness ==
    /\ event.kind = "throw"
    /\ event.dropped
    /\ CacheOf(event.op).enabled
    /\ ~MapHas(CacheOf(event.op).cache, Key(event.messages, event.temperature, event.schema))

====
